---- MODULE Spec2Model ----
(***************************************************************************)
(* ACARS Hub ingestion pipeline (src/rust): main starts the storage        *)
(* handle, one persistence consumer task and one UDP listener task per     *)
(* enabled protocol; listeners decode datagrams and push them onto an      *)
(* unbounded mpsc channel; the consumer canonicalizes each envelope and    *)
(* inserts it under the FairMutex of the storage handle.                   *)
(*                                                                         *)
(* The repository holds two generations of the pipeline crates:            *)
(*   "AcarsVdlm2Message": acarshub-message-processing + acarshub-database  *)
(*       (the channel carries the decoder's AcarsVdlm2Message);            *)
(*   "FoundMessage": acarshub_message_processing + acarshub_common +       *)
(*       libraries/acarshub_database (the channel carries FoundMessage,    *)
(*       the decoded message tagged with the listener's protocol).         *)
(* The variable build says which generation main is linked against.        *)
(***************************************************************************)
EXTENDS Integers, Sequences, FiniteSets, TLC

VARIABLES
    build,        \* which generation of the pipeline crates is linked
    input,        \* acarshub_settings::Input: the five enable flags
    env,          \* environment of the process: path settings, the legacy file
    databaseUrl,  \* the path AcarsHubDatabase::new connected to (None before)
    canonIn,      \* the envelope to_message is called on by itself (CanonSpec)
    canonOut,     \* what that call returned
    schema,       \* store file: versions recorded in __diesel_schema_migrations
    starts,       \* ghost: how many times the process has been started on the store
    mainPc,       \* position of main()
    exitCode,     \* status the process exited with (-1 while running)
    handleRefs,   \* components holding a clone of Arc<FairMutex<AcarsHubDatabase>>
    lockHolders,  \* tasks holding the FairMutex guard
    listenerPc,   \* per protocol: position of its start_udp_listener task
    delivered,    \* ghost: [uid, port, kind] of every datagram received, in order
    pending,      \* per protocol: the decoded envelope its listener is about to send
    pushed,       \* ghost: uids whose envelope sender.send accepted
    channel,      \* the unbounded mpsc queue
    receiverOpen, \* the UnboundedReceiver has been created and not dropped
    consumerPc,   \* position of the DatabaseListener task
    current,      \* the NewMessage the consumer is about to insert
    consumed,     \* ghost: uids in the order receiver.recv() returned them
    db,           \* the store: primary table, full-text index, stats tables
    writeFailed,  \* ghost: uids whose insert_message failed
    logs          \* counters of log entries, by call site

vars == <<build, input, env, databaseUrl, canonIn, canonOut, schema, starts,
          mainPc, exitCode, handleRefs, lockHolders, listenerPc,
          delivered, pending, pushed, channel, receiverOpen, consumerPc,
          current, consumed, db, writeFailed, logs>>

----------------------------------------------------------------------------
(* Bounds *)

\* Datagrams the environment delivers over all sockets in one run with
\* several protocols enabled.
MaxDatagrams == 2

\* Datagrams the environment delivers in a run with one protocol enabled.
MaxDatagramsOneSocket == 3

\* Protocols enabled together in one run.
MaxEnabled == 2

\* How many migrations the binary embeds, and how often the process is started
\* on one store file.
MaxMigrations == 2

MaxStarts == 2

\* Names of the datagrams (stand-ins for their distinct contents).
UidNames == <<"m1", "m2", "m3", "m4", "m5", "m6">>

Uid(n) == UidNames[n]

Builds == {"AcarsVdlm2Message", "FoundMessage"}

----------------------------------------------------------------------------
(* Protocols *)

\* enum Protocols
Protocols == {"Acars", "Vdlm", "Hfdl", "Imsl", "Irdm"}

\* A Display that writes the name of the enum variant.
Protocols_fmt_variant(p) == p

\* impl fmt::Display for Protocols
Protocols_fmt(p) ==
    CASE p = "Acars" -> "ACARS"
      [] p = "Vdlm" -> "VDL-M2"
      [] p = "Hfdl" -> "HFDL"
      [] p = "Imsl" -> "Inmarsat L-Band"
      [] p = "Irdm" -> "Iridium"

\* A port table in which HFDL shares the port of VDL-M2.
to_tcp_udp_port_shared(p) ==
    CASE p = "Acars" -> 5550
      [] p = "Vdlm" -> 5555
      [] p = "Hfdl" -> 5555
      [] p = "Imsl" -> 5557
      [] p = "Irdm" -> 5558

\* Protocols::to_tcp_udp_port
to_tcp_udp_port(p) ==
    CASE p = "Acars" -> 5550
      [] p = "Vdlm" -> 5555
      [] p = "Hfdl" -> 5556
      [] p = "Imsl" -> 5557
      [] p = "Irdm" -> 5558

\* Input: the enable flags as parsed by clap.
Inputs ==
    [enable_acars : BOOLEAN, enable_vdlm : BOOLEAN, enable_hfdl : BOOLEAN,
     enable_imsl : BOOLEAN, enable_irdm : BOOLEAN]

\* Input::enabled_to_vec: the enabled protocols, pushed in declaration order.
enabled_to_vec(in) ==
    LET a == IF in.enable_acars THEN <<"Acars">> ELSE <<>>
        b == IF in.enable_vdlm THEN Append(a, "Vdlm") ELSE a
        c == IF in.enable_hfdl THEN Append(b, "Hfdl") ELSE b
        d == IF in.enable_imsl THEN Append(c, "Imsl") ELSE c
    IN  IF in.enable_irdm THEN Append(d, "Irdm") ELSE d

Range(s) == {s[i] : i \in 1..Len(s)}

\* Datagrams delivered in a run with this input.
DatagramBudget(in) ==
    IF Len(enabled_to_vec(in)) = 1 THEN MaxDatagramsOneSocket ELSE MaxDatagrams

\* The inputs of the runs explored.
InputSpace == {in \in Inputs : Len(enabled_to_vec(in)) <= MaxEnabled}

\* The variants of the decoder's AcarsVdlm2Message enum.
Variants == {"AcarsMessage", "Vdlm2Message", "HfdlMessage", "IrdmMessage", "ImslMessage"}

----------------------------------------------------------------------------
(* Values of the decoder's message types *)

\* Option<T>
None == [some |-> FALSE]

Some(x) == [some |-> TRUE, v |-> x]

\* Option::unwrap_or_default, with the type's default given.
unwrap_or_default(o, default) == IF o.some THEN o.v ELSE default

DigitStr == <<"0", "1", "2", "3", "4", "5", "6", "7", "8", "9">>

RECURSIVE NatToString(_)
NatToString(n) ==
    IF n < 10 THEN DigitStr[n + 1]
    ELSE NatToString(n \div 10) \o DigitStr[(n % 10) + 1]

\* Display of an integer (ToString::to_string).
IntToString(i) == IF i < 0 THEN "-" \o NatToString(-i) ELSE NatToString(i)

\* Display of a bool.
BoolToString(b) == IF b THEN "true" ELSE "false"

\* An f64 is held in thousandths (131550 is 131.550). Display of an f64 prints
\* the shortest decimal that reads back: no trailing zeros, no "." when whole.
FracDigits(f) ==
    IF f % 100 = 0 THEN DigitStr[(f \div 100) + 1]
    ELSE IF f % 10 = 0
         THEN DigitStr[(f \div 100) + 1] \o DigitStr[((f \div 10) % 10) + 1]
         ELSE DigitStr[(f \div 100) + 1] \o DigitStr[((f \div 10) % 10) + 1]
                \o DigitStr[(f % 10) + 1]

\* A Display of an f64 that always prints three decimals.
F64ToString_fixed3(x) ==
    LET a == IF x < 0 THEN -x ELSE x
        body == NatToString(a \div 1000) \o "." \o DigitStr[((a % 1000) \div 100) + 1]
                  \o DigitStr[((a \div 10) % 10) + 1] \o DigitStr[(a % 10) + 1]
    IN  IF x < 0 THEN "-" \o body ELSE body

F64ToString(x) ==
    LET a == IF x < 0 THEN -x ELSE x
        whole == NatToString(a \div 1000)
        body == IF a % 1000 = 0 THEN whole ELSE whole \o "." \o FracDigits(a % 1000)
    IN  IF x < 0 THEN "-" \o body ELSE body

\* The bounds of i32.
I32_MAX == 2147483647

I32_MIN == (-I32_MAX) - 1

\* An f64 count of seconds is held as sign and magnitude, the whole seconds
\* of the magnitude in two limbs (hi * Limb + lo) so that values beyond the
\* i32 range can be told apart, and the fraction in thousandths; or it is NaN.
Limb == 65536

F64Seconds(neg, hi, lo, frac) ==
    [nan |-> FALSE, neg |-> neg, hi |-> hi, lo |-> lo, frac |-> frac]

\* A non-negative f64 from whole seconds and thousandths.
F64Of(sec, frac) == F64Seconds(FALSE, sec \div Limb, sec % Limb, frac)

NaN == [nan |-> TRUE, neg |-> FALSE, hi |-> 0, lo |-> 0, frac |-> 0]

\* i32::MIN as f64 <= t /\ t <= i32::MAX as f64
InI32Range(t) ==
    IF t.neg
    THEN \/ t.hi <= I32_MAX \div Limb
         \/ t.hi = (I32_MAX \div Limb) + 1 /\ t.lo = 0 /\ t.frac = 0
    ELSE \/ t.hi < I32_MAX \div Limb
         \/ /\ t.hi = I32_MAX \div Limb
            /\ \/ t.lo < I32_MAX % Limb
               \/ t.lo = I32_MAX % Limb /\ t.frac = 0

\* t as i32 for a t in range: the fraction is cut off (toward zero).
TruncToI32(t) ==
    IF t.neg THEN ((-t.hi) * Limb) - t.lo ELSE (t.hi * Limb) + t.lo

\* A narrowing that casts with `as`: NaN gives 0, a value out of range the
\* nearest bound.
approx_as_i32_saturating(t) ==
    IF t.nan THEN Some(0)
    ELSE IF InI32Range(t) THEN Some(TruncToI32(t))
         ELSE IF t.neg THEN Some(I32_MIN) ELSE Some(I32_MAX)

\* conv::ConvUtil::approx_as::<i32> of an f64 (DefaultApprox): an error (here
\* None) for NaN and for a value below i32::MIN or above i32::MAX, otherwise
\* the value cast with `as`.
approx_as_i32(t) ==
    IF t.nan THEN None
    ELSE IF InI32Range(t) THEN Some(TruncToI32(t)) ELSE None

\* The whole-seconds field of a VDL-M2 or HFDL timestamp, an unsigned integer
\* held in limbs: lo is the low 16 bits and hi is everything above them.
SecOf(hi, lo) == [hi |-> hi, lo |-> lo]

\* A narrowing of the seconds that answers a value out of the i32 range with
\* 0, as the ACARS mapping does.
as_i32_or_zero(sec) ==
    IF sec.hi <= I32_MAX \div Limb THEN (sec.hi * Limb) + sec.lo ELSE 0

\* `sec as i32`: an integer cast keeps the low 32 bits and reads them as two's
\* complement.
as_i32(sec) ==
    LET h == sec.hi % Limb
    IN  IF h >= Limb \div 2 THEN ((h - Limb) * Limb) + sec.lo ELSE (h * Limb) + sec.lo

\* enum AckType { String(String), Bool(bool) } of the decoder.
AckBool(b) == [tag |-> "Bool", b |-> b, s |-> ""]

AckString(s) == [tag |-> "String", b |-> FALSE, s |-> s]

\* An AcarsMessage with every optional field absent.
AbsentAcars ==
    [freq |-> 0, timestamp |-> None, station_id |-> None, ack |-> None,
     toaddr |-> None, text |-> None, tail |-> None, flight |-> None,
     icao |-> None, mode |-> None, label |-> None, block_id |-> None,
     msgno |-> None, is_onground |-> None, is_response |-> None,
     error |-> None, level |-> None]

\* The decoded messages the sockets deliver in Spec, one per variant; uid is
\* the datagram's name, carried in the field each variant has for free text or
\* station.
AcarsSample(uid) ==
    [AbsentAcars EXCEPT !.freq = 131550,
                        !.timestamp = Some(F64Of(1700000000, 250)),
                        !.station_id = Some("KSEA"),
                        !.ack = Some(AckBool(TRUE)),
                        !.text = Some(uid),
                        !.label = Some("H1"),
                        !.level = Some([tag |-> "Float64", v |-> -10500])]

\* DecodeMessage::decode_message on a well-formed datagram of variant v.
DecodedMessage(v, uid) ==
    CASE v = "AcarsMessage" -> [variant |-> v, acars |-> AcarsSample(uid)]
      [] v = "Vdlm2Message" ->
            [variant |-> v,
             vdl2 |-> [t |-> Some([sec |-> SecOf(1700000001 \div Limb, 1700000001 % Limb), usec |-> 5]), station |-> Some(uid)]]
      [] v = "HfdlMessage" ->
            [variant |-> v, hfdl |-> [t |-> None, station |-> Some(uid)]]
      [] OTHER -> [variant |-> v]

----------------------------------------------------------------------------
(* Canonicalization *)

\* struct NewMessage: the columns of the primary table.
NewMessageFields ==
    {"message_type", "msg_time", "station_id", "toaddr", "fromaddr", "depa",
     "dsta", "eta", "gtout", "gtin", "wloff", "wlin", "lat", "lon", "alt",
     "msg_text", "tail", "flight", "icao", "freq", "ack", "mode", "label",
     "block_id", "msgno", "is_response", "is_onground", "error", "libacars",
     "level"}

\* An ack arm that writes a boolean as a digit.
acars_ack_digit(ack) ==
    IF ~ack.some THEN ""
    ELSE IF ack.v.tag = "String" THEN ack.v.s
         ELSE IF ack.v.b THEN "1" ELSE "0"

\* The ack arm of acars_message / MessageDetails::get_ack for an AcarsMessage.
acars_ack(ack) ==
    IF ~ack.some THEN ""
    ELSE IF ack.v.tag = "String" THEN ack.v.s ELSE BoolToString(ack.v.b)

\* The level arm of acars_message.
acars_level(level) ==
    IF ~level.some THEN ""
    ELSE IF level.v.tag = "I32" THEN IntToString(level.v.v) ELSE F64ToString(level.v.v)

\* The msg_time arm of acars_message.
acars_msg_time(timestamp) ==
    unwrap_or_default(approx_as_i32(unwrap_or_default(timestamp, F64Of(0, 0))), 0)

\* NewMessage with the given head fields and the content fields of an
\* AcarsMessage (the struct literal of acars_message, lines 87-128).
NewMessageOf(message_type, msg_time, station_id, ack, msg) ==
    [message_type |-> message_type,
     msg_time |-> msg_time,
     station_id |-> station_id,
     ack |-> ack,
     toaddr |-> IntToString(unwrap_or_default(msg.toaddr, 0)),
     fromaddr |-> "", depa |-> "", dsta |-> "", eta |-> "", gtout |-> "",
     gtin |-> "", wloff |-> "", wlin |-> "", lat |-> "", lon |-> "", alt |-> "",
     msg_text |-> unwrap_or_default(msg.text, ""),
     tail |-> unwrap_or_default(msg.tail, ""),
     flight |-> unwrap_or_default(msg.flight, ""),
     icao |-> IntToString(unwrap_or_default(msg.icao, 0)),
     freq |-> F64ToString(msg.freq),
     mode |-> unwrap_or_default(msg.mode, ""),
     label |-> unwrap_or_default(msg.label, ""),
     block_id |-> unwrap_or_default(msg.block_id, ""),
     msgno |-> unwrap_or_default(msg.msgno, ""),
     is_onground |-> IntToString(unwrap_or_default(msg.is_onground, 0)),
     is_response |-> IntToString(unwrap_or_default(msg.is_response, 0)),
     error |-> IntToString(unwrap_or_default(msg.error, 0)),
     libacars |-> "",
     level |-> acars_level(msg.level)]

\* IntoMessage::acars_message (acarshub-database).
acars_message(msg) ==
    NewMessageOf("ACARS", acars_msg_time(msg.timestamp),
                 unwrap_or_default(msg.station_id, ""), acars_ack(msg.ack), msg)

\* Outcomes of canonicalization.
Canonical(rec) == [kind |-> "Some", rec |-> rec]

Nothing == [kind |-> "None"]

Panic == [kind |-> "Panic"]

\* A to_message whose other arms build a record from the fields they lack.
to_message_maps_all(message) ==
    IF message.variant = "AcarsMessage" THEN Canonical(acars_message(message.acars))
    ELSE Canonical(acars_message(AbsentAcars))

\* IntoMessage::to_message for AcarsVdlm2Message (acarshub-database): only the
\* ACARS arm is implemented; every other arm warns and returns None.
to_message(message) ==
    IF message.variant = "AcarsMessage" THEN Canonical(acars_message(message.acars))
    ELSE Nothing

\* A get_message_time that checks the range of the seconds.
get_message_time_checked(message) ==
    CASE message.variant = "AcarsMessage" -> Some(acars_msg_time(message.acars.timestamp))
      [] message.variant = "Vdlm2Message" ->
            Some(IF message.vdl2.t.some THEN as_i32_or_zero(message.vdl2.t.v.sec) ELSE 0)
      [] message.variant = "HfdlMessage" ->
            Some(IF message.hfdl.t.some THEN as_i32_or_zero(message.hfdl.t.v.sec) ELSE 0)
      [] OTHER -> None

\* MessageDetails::get_message_time (libraries/acarshub_database).
get_message_time(message) ==
    CASE message.variant = "AcarsMessage" -> Some(acars_msg_time(message.acars.timestamp))
      [] message.variant = "Vdlm2Message" ->
            Some(IF message.vdl2.t.some THEN as_i32(message.vdl2.t.v.sec) ELSE 0)
      [] message.variant = "HfdlMessage" ->
            Some(IF message.hfdl.t.some THEN as_i32(message.hfdl.t.v.sec) ELSE 0)
      [] OTHER -> None  \* unimplemented!()

\* MessageDetails::get_station_id.
get_station_id(message) ==
    CASE message.variant = "AcarsMessage" ->
            Some(unwrap_or_default(message.acars.station_id, ""))
      [] message.variant = "Vdlm2Message" ->
            Some(unwrap_or_default(message.vdl2.station, ""))
      [] message.variant = "HfdlMessage" ->
            Some(unwrap_or_default(message.hfdl.station, ""))
      [] OTHER -> None  \* unimplemented!()

\* MessageDetails::get_ack.
get_ack(message) ==
    CASE message.variant = "AcarsMessage" -> Some(acars_ack(message.acars.ack))
      [] message.variant = "Vdlm2Message" -> Some("")
      [] message.variant = "HfdlMessage" -> Some("")
      [] OTHER -> None  \* unimplemented!()

\* IntoMessage::to_message for FoundMessage (libraries/acarshub_database): the
\* struct literal is evaluated field by field; a helper that reaches
\* unimplemented!() panics. The content fields are read from the message as
\* from an AcarsMessage; a variant without them gives the absent values.
to_message_found(found) ==
    LET msg == found.message
        time == get_message_time(msg)
        station == get_station_id(msg)
        ack == get_ack(msg)
        content == IF msg.variant = "AcarsMessage" THEN msg.acars ELSE AbsentAcars
    IN  IF ~time.some \/ ~station.some \/ ~ack.some THEN Panic
        ELSE Canonical(NewMessageOf(Protocols_fmt(found.protocol), time.v,
                                    station.v, ack.v, content))

\* The protocol whose messages the decoder reports as the variant.
ProtocolOfVariant(v) ==
    CASE v = "AcarsMessage" -> "Acars"
      [] v = "Vdlm2Message" -> "Vdlm"
      [] v = "HfdlMessage" -> "Hfdl"
      [] v = "ImslMessage" -> "Imsl"
      [] v = "IrdmMessage" -> "Irdm"

\* An envelope tagged with the protocol of the decoded variant.
Envelope_by_variant(b, feature, message, uid) ==
    IF b = "FoundMessage"
    THEN [uid |-> uid, protocol |-> ProtocolOfVariant(message.variant), message |-> message]
    ELSE [uid |-> uid, message |-> message]

\* The envelope start_udp_listener sends for a decoded message.
Envelope(b, feature, message, uid) ==
    IF b = "FoundMessage"
    THEN [uid |-> uid, protocol |-> feature, message |-> message]
    ELSE [uid |-> uid, message |-> message]

\* message.to_message() as DatabaseListener::start calls it.
canonicalize(b, envelope) ==
    IF b = "FoundMessage" THEN to_message_found(envelope)
    ELSE to_message(envelope.message)

----------------------------------------------------------------------------
(* The store *)

\* The store after the migrations: empty primary table, full-text index and
\* stats tables (schema.rs).
EmptyStore ==
    [rows |-> <<>>,
     fts |-> {},
     count |-> [total |-> 0, errors |-> 0, good |-> 0],
     freqs |-> [k \in {} |-> 0],
     level |-> [k \in {} |-> 0],
     alert_terms |-> {},
     ignore_terms |-> {},
     alert_stats |-> [k \in {} |-> 0],
     saved |-> <<>>]

\* The words of a message text, for the texts of the model.
Words(text) ==
    CASE text = "MAYDAY FUEL" -> {"MAYDAY", "FUEL"}
      [] text = "PAN PAN MEDICAL" -> {"PAN", "MEDICAL"}
      [] OTHER -> {}

\* A scan that does not look at the ignore list.
AlertHits_with_ignored(store, row) ==
    {t \in store.alert_terms : t \in Words(row.rec.msg_text)}

\* The alert terms a message is archived for: the tracked terms that occur in
\* its text and are not on the ignore list.
AlertHits(store, row) ==
    {t \in store.alert_terms \ store.ignore_terms : t \in Words(row.rec.msg_text)}

\* The archive rows of one message, one per term, each with the full record,
\* the term and the kind of match.
RECURSIVE SavedRows(_, _)
SavedRows(row, terms) ==
    IF terms = {} THEN <<>>
    ELSE LET t == CHOOSE x \in terms : TRUE
         IN  <<[src |-> row.src, rec |-> row.rec, term |-> t, type_of_match |-> "text"]>>
                \o SavedRows(row, terms \ {t})

\* The hit counter of every term of the set goes up by one.
CountHits(stats, terms) ==
    [t \in DOMAIN stats \cup terms |->
        (IF t \in DOMAIN stats THEN stats[t] ELSE 0) + (IF t \in terms THEN 1 ELSE 0)]

\* Upsert of a histogram row: count + 1, or a new row with count 1.
Upsert(f, k) ==
    [x \in DOMAIN f \cup {k} |->
        IF x = k THEN (IF k \in DOMAIN f THEN f[k] + 1 ELSE 1) ELSE f[x]]

\* The statements of one unit of work, in order: the insert into messages
\* (whose triggers maintain messages_fts), then the totals and the histograms,
\* then the alert archive and the hit counters.
StorageSteps == <<"messages", "count", "freqs", "level", "alerts">>

\* Statements whose insert takes the place of the newest row.
ApplyStep_replaces_row(store, row, step) ==
    CASE step = "messages" ->
            [store EXCEPT !.rows = IF @ = <<>> THEN <<row>>
                                   ELSE Append(SubSeq(@, 1, Len(@) - 1), row),
                          !.fts = @ \cup {1}]
      [] step = "count" -> store
      [] step = "freqs" -> store
      [] step = "level" -> store
      [] step = "alerts" -> store

\* Statements that leave the totals as they are.
ApplyStep_no_count(store, row, step) ==
    CASE step = "messages" ->
            [store EXCEPT !.rows = Append(@, row), !.fts = @ \cup {Len(store.rows) + 1}]
      [] step = "count" -> store
      [] step = "freqs" ->
            [store EXCEPT !.freqs = Upsert(@, <<row.rec.freq, row.rec.message_type>>)]
      [] step = "level" ->
            [store EXCEPT !.level = Upsert(@, row.rec.level)]
      [] step = "alerts" ->
            [store EXCEPT !.saved = @ \o SavedRows(row, AlertHits(store, row)),
                          !.alert_stats = CountHits(@, AlertHits(store, row))]

ApplyStep(store, row, step) ==
    CASE step = "messages" ->
            [store EXCEPT !.rows = Append(@, row), !.fts = @ \cup {Len(store.rows) + 1}]
      [] step = "count" ->
            [store EXCEPT !.count =
                [total |-> @.total + 1,
                 errors |-> IF row.rec.error # "0" THEN @.errors + 1 ELSE @.errors,
                 good |-> IF row.rec.error = "0" THEN @.good + 1 ELSE @.good]]
      [] step = "freqs" ->
            [store EXCEPT !.freqs = Upsert(@, <<row.rec.freq, row.rec.message_type>>)]
      [] step = "level" ->
            [store EXCEPT !.level = Upsert(@, row.rec.level)]
      [] step = "alerts" ->
            [store EXCEPT !.saved = @ \o SavedRows(row, AlertHits(store, row)),
                          !.alert_stats = CountHits(@, AlertHits(store, row))]

RECURSIVE ApplySteps(_, _, _)
ApplySteps(store, row, k) ==
    IF k = 0 THEN store
    ELSE ApplyStep(ApplySteps(store, row, k - 1), row, StorageSteps[k])

\* A unit of work that keeps what it wrote before the failing statement.
insert_message_no_rollback(store, row, fault) ==
    IF fault = 0 THEN [ok |-> TRUE, store |-> ApplySteps(store, row, Len(StorageSteps))]
    ELSE [ok |-> FALSE, store |-> ApplySteps(store, row, fault - 1)]

\* AcarsHubDatabase::insert_message: the unit of work of one message, in one
\* transaction. fault = 0: every statement succeeds; fault = k: statement k
\* fails, the transaction is rolled back and the failure is logged.
insert_message(store, row, fault) ==
    IF fault = 0 THEN [ok |-> TRUE, store |-> ApplySteps(store, row, Len(StorageSteps))]
    ELSE [ok |-> FALSE, store |-> store]

----------------------------------------------------------------------------
(* The path of the store file *)

LegacyPath == "/run/acarshub/messages.db"

\* A path an operator sets.
CustomPath == "/data/messages.sqlite"

\* The environment of a start: DATABASE_URL and AH_DATABASE (--database),
\* each set to a path or unset, and whether a file exists at the legacy path.
EnvSpace ==
    [DATABASE_URL : {None, Some(CustomPath)},
     AH_DATABASE : {None, Some(CustomPath)},
     legacy_exists : BOOLEAN]

\* Nothing set, no legacy file.
PlainEnv == [DATABASE_URL |-> None, AH_DATABASE |-> None, legacy_exists |-> FALSE]

\* The path setting each generation reads, and the path it falls back to.
ConfiguredPath(b, e) ==
    IF b = "AcarsVdlm2Message" THEN e.DATABASE_URL ELSE e.AH_DATABASE

DefaultPath(b) ==
    IF b = "AcarsVdlm2Message"
    THEN "/opt/acarshub/messages.sqlite"
    ELSE "/opt/acarshub-data/messages.sqlite"

\* Input::database as clap fills it: AH_DATABASE (or --database), else the
\* default value.
Input_database(e) ==
    IF e.AH_DATABASE.some THEN e.AH_DATABASE.v ELSE DefaultPath("FoundMessage")

\* A choice that lets a configured path win over the legacy file.
database_url_configured_first(b, e) ==
    IF ConfiguredPath(b, e).some THEN ConfiguredPath(b, e).v
    ELSE IF e.legacy_exists THEN LegacyPath
    ELSE DefaultPath(b)

\* AcarsHubDatabase::new, lines 53-62: database_url. acarshub-database reads
\* DATABASE_URL; the constructor main calls with &input.database starts from
\* that argument. A file at the legacy path overrides either.
database_url(b, e) ==
    LET configured ==
            IF b = "AcarsVdlm2Message"
            THEN (IF e.DATABASE_URL.some THEN e.DATABASE_URL.v
                  ELSE "/opt/acarshub/messages.sqlite")
            ELSE Input_database(e)
    IN  IF e.legacy_exists THEN LegacyPath ELSE configured

----------------------------------------------------------------------------
(* Schema migrations *)

\* MIGRATIONS = embed_migrations!("./migrations"): the versions the binary
\* carries, in ascending order.
MIGRATIONS == 1..MaxMigrations

\* The store files a process can be started on: new, or migrated up to some
\* version by an earlier release.
StoreSchemas == {1..k : k \in 0..MaxMigrations}

\* The embedded versions that the store has no record of, ascending.
PendingMigrations(applied) ==
    LET S == MIGRATIONS \ applied
    IN  [i \in 1..Cardinality(S) |->
            CHOOSE v \in S : Cardinality({w \in S : w < v}) = i - 1]

\* A harness that runs every embedded migration, recorded or not.
run_pending_migrations_all(applied, fault) ==
    LET all == PendingMigrations({})
        n == IF fault \in MIGRATIONS THEN fault - 1 ELSE Len(all)
        ran == SubSeq(all, 1, n)
    IN  [ok |-> fault \notin MIGRATIONS, ran |-> ran, applied |-> applied \cup Range(ran)]

\* conn.run_pending_migrations(MIGRATIONS): the pending versions are applied in
\* ascending order, each in its own transaction together with its record.
\* fault = 0: all of them succeed; fault = v: version v fails if it is pending,
\* the versions before it stay applied and the call returns Err.
run_pending_migrations(applied, fault) ==
    LET pend == PendingMigrations(applied)
        failing == {i \in 1..Len(pend) : pend[i] = fault}
        n == IF failing = {} THEN Len(pend) ELSE (CHOOSE i \in failing : TRUE) - 1
        ran == SubSeq(pend, 1, n)
    IN  [ok |-> failing = {}, ran |-> ran, applied |-> applied \cup Range(ran)]

\* AcarsHubDatabase::new: establish_connection(&database_url)?, then
\* run_migrations(&mut conn)?. Without a connection nothing is run.
AcarsHubDatabase_new(applied, connected, fault) ==
    IF connected
    THEN run_pending_migrations(applied, fault)
    ELSE [ok |-> FALSE, ran |-> <<>>, applied |-> applied]

----------------------------------------------------------------------------
(* State *)

LogSites ==
    {"db_error", "no_protocols", "bind_error", "recv_error", "decode_error",
     "send_error", "unsupported_warn", "storage_error",
     "no_migrations", "migration_ran", "legacy_warn"}

Log(site) == [logs EXCEPT ![site] = @ + 1]

Running == mainPc # "exited"

\* The process before main has done anything.
NotStarted ==
    /\ mainPc = "database"
    /\ exitCode = -1
    /\ handleRefs = {}
    /\ lockHolders = {}
    /\ listenerPc = [p \in Protocols |-> "unspawned"]
    /\ delivered = <<>>
    /\ pending = [p \in Protocols |-> None]
    /\ pushed = {}
    /\ channel = <<>>
    /\ receiverOpen = FALSE
    /\ consumerPc = "unspawned"
    /\ current = None
    /\ consumed = <<>>
    /\ writeFailed = {}
    /\ logs = [s \in LogSites |-> 0]

\* The first start of the process, on a new store file.
Init ==
    /\ build \in Builds
    /\ input \in InputSpace
    /\ env = PlainEnv
    /\ databaseUrl = None
    /\ canonIn = None
    /\ canonOut = None
    /\ schema = {}
    /\ starts = 1
    /\ db = EmptyStore
    /\ NotStarted

pipelineVars == <<listenerPc, delivered, pending, pushed, channel, receiverOpen, consumerPc,
                  current, consumed, db, writeFailed, lockHolders>>

----------------------------------------------------------------------------
(* main *)

\* std::process::exit(code), or the end of main by a panic.
Exit(code) ==
    /\ mainPc' = "exited"
    /\ exitCode' = code

\* The status the parent of the process sees: the low byte of the code.
ExitStatus(code) == code % 256

\* AcarsHubDatabase::new, line 61, and run_migrations, lines 90-99: the
\* warning about the legacy file; then, when the run returned Ok, one entry
\* per migration that ran, or one entry saying that there was none.
LogMigrations(ok, ran) ==
    [logs EXCEPT !["legacy_warn"] = IF env.legacy_exists THEN @ + 1 ELSE @,
                 !["db_error"] = IF ok THEN @ ELSE @ + 1,
                 !["no_migrations"] = IF ok /\ ran = <<>> THEN @ + 1 ELSE @,
                 !["migration_ran"] = IF ok THEN @ + Len(ran) ELSE @]

\* A main that goes on with the handle whatever AcarsHubDatabase::new returned.
Main_database_ignores_error ==
    /\ mainPc = "database"
    /\ \E connected \in BOOLEAN, fault \in 0..MaxMigrations :
        LET r == AcarsHubDatabase_new(schema, connected, fault)
        IN  /\ schema' = r.applied
            /\ handleRefs' = {"main"}
            /\ mainPc' = "db_listener"
            /\ databaseUrl' = Some(database_url(build, env))
            /\ logs' = IF r.ok THEN LogMigrations(TRUE, r.ran) ELSE logs
            /\ UNCHANGED exitCode
    /\ UNCHANGED <<build, input, env, canonIn, canonOut, starts>>
    /\ UNCHANGED pipelineVars

\* A main that looks at the enabled protocols before it opens the store.
Main_database_checks_protocols ==
    /\ mainPc = "database"
    /\ IF enabled_to_vec(input) = <<>>
       THEN /\ Exit(420)
            /\ logs' = Log("no_protocols")
            /\ UNCHANGED <<schema, databaseUrl, handleRefs>>
       ELSE \E connected \in BOOLEAN, fault \in 0..MaxMigrations :
            LET r == AcarsHubDatabase_new(schema, connected, fault)
            IN  /\ schema' = r.applied
                /\ databaseUrl' = Some(database_url(build, env))
                /\ logs' = LogMigrations(r.ok, r.ran)
                /\ IF r.ok
                   THEN /\ handleRefs' = {"main"}
                        /\ mainPc' = "db_listener"
                        /\ UNCHANGED exitCode
                   ELSE /\ Exit(69)
                        /\ UNCHANGED handleRefs
    /\ UNCHANGED <<build, input, env, canonIn, canonOut, starts>>
    /\ UNCHANGED pipelineVars

\* main, lines 68-74: AcarsHubDatabase::new connects and migrates, or the
\* process exits with 69.
Main_database ==
    /\ mainPc = "database"
    /\ \E connected \in BOOLEAN, fault \in 0..MaxMigrations :
        LET r == AcarsHubDatabase_new(schema, connected, fault)
        IN  /\ schema' = r.applied
            /\ databaseUrl' = Some(database_url(build, env))
            /\ logs' = LogMigrations(r.ok, r.ran)
            /\ IF r.ok
               THEN /\ handleRefs' = {"main"}
                    /\ mainPc' = "db_listener"
                    /\ UNCHANGED exitCode
               ELSE /\ Exit(69)
                    /\ UNCHANGED handleRefs
    /\ UNCHANGED <<build, input, env, canonIn, canonOut, starts>>
    /\ UNCHANGED pipelineVars

\* main, lines 77-81: DatabaseListener::new(database.clone()), the channel,
\* and start(receiver), which clones the handle into the spawned task.
Main_db_listener ==
    /\ mainPc = "db_listener"
    /\ handleRefs' = handleRefs \cup {"db_listener", "consumer"}
    /\ receiverOpen' = TRUE
    /\ consumerPc' = "recv"
    /\ mainPc' = "protocols"
    /\ UNCHANGED <<build, input, env, databaseUrl, canonIn, canonOut, schema, starts,
                   exitCode, lockHolders, listenerPc, delivered, pending,
                   pushed, channel, current, consumed, db, writeFailed, logs>>

\* A main that does not look at the list of enabled protocols.
Main_protocols_no_check ==
    /\ mainPc = "protocols"
    /\ mainPc' = "run_listener"
    /\ UNCHANGED <<exitCode, logs>>
    /\ UNCHANGED <<build, input, env, databaseUrl, canonIn, canonOut, schema, starts,
                   handleRefs>>
    /\ UNCHANGED pipelineVars

\* A main whose exit for no protocol has another number but the same low byte
\* as the exit for the store.
Main_protocols_exit_325 ==
    /\ mainPc = "protocols"
    /\ IF enabled_to_vec(input) = <<>>
       THEN /\ Exit(325)
            /\ logs' = Log("no_protocols")
       ELSE /\ mainPc' = "run_listener"
            /\ UNCHANGED <<exitCode, logs>>
    /\ UNCHANGED <<build, input, env, databaseUrl, canonIn, canonOut, schema, starts,
                   handleRefs>>
    /\ UNCHANGED pipelineVars

\* main, lines 83-88: no protocol enabled is fatal.
Main_protocols ==
    /\ mainPc = "protocols"
    /\ IF enabled_to_vec(input) = <<>>
       THEN /\ Exit(420)
            /\ logs' = Log("no_protocols")
       ELSE /\ mainPc' = "run_listener"
            /\ UNCHANGED <<exitCode, logs>>
    /\ UNCHANGED <<build, input, env, databaseUrl, canonIn, canonOut, schema, starts, handleRefs>>
    /\ UNCHANGED pipelineVars

\* AcarsHubMessageProcessing::run_listener: one start_udp_listener per
\* enabled feature.
run_listener(features) ==
    [p \in Protocols |-> IF p \in Range(features) THEN "bind" ELSE "unspawned"]

\* main, lines 91-93.
Main_run_listener ==
    /\ mainPc = "run_listener"
    /\ listenerPc' = run_listener(enabled_to_vec(input))
    /\ mainPc' = "webserver"
    /\ UNCHANGED <<build, input, env, databaseUrl, canonIn, canonOut, schema, starts,
                   exitCode, handleRefs, lockHolders, delivered, pending,
                   pushed, channel, receiverOpen, consumerPc, current, consumed, db,
                   writeFailed, logs>>

\* A web server that locks the handle it was given for as long as it serves.
Main_webserver_locks ==
    /\ mainPc = "webserver"
    /\ lockHolders = {}
    /\ handleRefs' = (handleRefs \ {"main"}) \cup {"webserver"}
    /\ lockHolders' = {"webserver"}
    /\ \E ok \in BOOLEAN :
        IF ok
        THEN /\ mainPc' = "serving"
             /\ UNCHANGED exitCode
        ELSE Exit(101)
    /\ UNCHANGED <<build, input, env, databaseUrl, canonIn, canonOut, schema, starts,
                   logs, listenerPc, delivered, pending, pushed, channel,
                   receiverOpen, consumerPc, current, consumed, db, writeFailed>>

\* main, lines 95-98: AcarsHubWebServer::new(database) takes main's handle;
\* run() binds and serves for good, or returns an error and expect() panics
\* main (status 101).
Main_webserver ==
    /\ mainPc = "webserver"
    /\ handleRefs' = (handleRefs \ {"main"}) \cup {"webserver"}
    /\ \E ok \in BOOLEAN :
        IF ok
        THEN /\ mainPc' = "serving"
             /\ UNCHANGED exitCode
        ELSE Exit(101)
    /\ UNCHANGED <<build, input, env, databaseUrl, canonIn, canonOut, schema, starts, logs>>
    /\ UNCHANGED pipelineVars

----------------------------------------------------------------------------
(* start_udp_listener *)

listenerFrame == <<build, input, env, databaseUrl, canonIn, canonOut, schema, starts,
                   mainPc, exitCode, handleRefs, lockHolders,
                   consumerPc, current, consumed, db, writeFailed, receiverOpen>>

\* UdpSocket::bind: the socket, or log and return.
Listener_bind(p) ==
    /\ Running
    /\ listenerPc[p] = "bind"
    /\ \E ok \in BOOLEAN :
        IF ok
        THEN /\ listenerPc' = [listenerPc EXCEPT ![p] = "recv"]
             /\ UNCHANGED logs
        ELSE /\ listenerPc' = [listenerPc EXCEPT ![p] = "done"]
             /\ logs' = Log("bind_error")
    /\ UNCHANGED <<delivered, pending, pushed, channel>>
    /\ UNCHANGED listenerFrame

\* A receive error that ends the process instead of the task.
Listener_recv_error_exits(p) ==
    /\ Running
    /\ listenerPc[p] = "recv"
    /\ listenerPc' = [listenerPc EXCEPT ![p] = "done"]
    /\ logs' = Log("recv_error")
    /\ Exit(1)
    /\ UNCHANGED <<delivered, pending, pushed, channel>>
    /\ UNCHANGED <<build, input, env, databaseUrl, canonIn, canonOut, schema, starts,
                   handleRefs, lockHolders, consumerPc, current,
                   consumed, db, writeFailed, receiverOpen>>

\* recv_from returned Err: log and break.
Listener_recv_error(p) ==
    /\ Running
    /\ listenerPc[p] = "recv"
    /\ listenerPc' = [listenerPc EXCEPT ![p] = "done"]
    /\ logs' = Log("recv_error")
    /\ UNCHANGED <<delivered, pending, pushed, channel>>
    /\ UNCHANGED listenerFrame

\* A decode error that ends the process instead of going back to recv_from.
Listener_decode_error_exits(p) ==
    /\ Running
    /\ listenerPc[p] = "recv"
    /\ Len(delivered) < DatagramBudget(input)
    /\ delivered' = Append(delivered, [uid |-> Uid(Len(delivered) + 1), port |-> p,
                                       kind |-> "malformed"])
    /\ logs' = Log("decode_error")
    /\ Exit(1)
    /\ UNCHANGED <<listenerPc, pending, pushed, channel>>
    /\ UNCHANGED <<build, input, env, databaseUrl, canonIn, canonOut, schema, starts,
                   handleRefs, lockHolders, consumerPc, current,
                   consumed, db, writeFailed, receiverOpen>>

\* recv_from returned a datagram that decode_message rejects: log, continue.
Listener_decode_error(p) ==
    /\ Running
    /\ listenerPc[p] = "recv"
    /\ Len(delivered) < DatagramBudget(input)
    /\ delivered' = Append(delivered, [uid |-> Uid(Len(delivered) + 1), port |-> p,
                                       kind |-> "malformed"])
    /\ logs' = Log("decode_error")
    /\ UNCHANGED <<listenerPc, pending, pushed, channel>>
    /\ UNCHANGED listenerFrame

\* recv_from returned a datagram that decodes to a message of variant v: the
\* listener holds the envelope it is going to send.
Listener_message(p, v) ==
    /\ Running
    /\ listenerPc[p] = "recv"
    /\ Len(delivered) < DatagramBudget(input)
    /\ LET uid == Uid(Len(delivered) + 1)
       IN  /\ delivered' = Append(delivered, [uid |-> uid, port |-> p, kind |-> v])
           /\ pending' = [pending EXCEPT
                            ![p] = Some(Envelope(build, p, DecodedMessage(v, uid), uid))]
    /\ listenerPc' = [listenerPc EXCEPT ![p] = "send"]
    /\ UNCHANGED <<pushed, channel, logs>>
    /\ UNCHANGED listenerFrame

\* A send that replaces what is queued instead of appending to it.
Listener_send_overwrite(p) ==
    /\ Running
    /\ listenerPc[p] = "send"
    /\ IF receiverOpen
       THEN /\ channel' = <<pending[p].v>>
            /\ pushed' = pushed \cup {pending[p].v.uid}
            /\ UNCHANGED logs
       ELSE /\ logs' = Log("send_error")
            /\ UNCHANGED <<channel, pushed>>
    /\ pending' = [pending EXCEPT ![p] = None]
    /\ listenerPc' = [listenerPc EXCEPT ![p] = "recv"]
    /\ UNCHANGED delivered
    /\ UNCHANGED listenerFrame

\* A send that queues the envelope at the head of the channel.
Listener_send_prepend(p) ==
    /\ Running
    /\ listenerPc[p] = "send"
    /\ IF receiverOpen
       THEN /\ channel' = <<pending[p].v>> \o channel
            /\ pushed' = pushed \cup {pending[p].v.uid}
            /\ UNCHANGED logs
       ELSE /\ logs' = Log("send_error")
            /\ UNCHANGED <<channel, pushed>>
    /\ pending' = [pending EXCEPT ![p] = None]
    /\ listenerPc' = [listenerPc EXCEPT ![p] = "recv"]
    /\ UNCHANGED delivered
    /\ UNCHANGED listenerFrame

\* A send onto a channel of capacity one: it waits while an envelope is queued.
Listener_send_bounded(p) ==
    /\ Running
    /\ listenerPc[p] = "send"
    /\ Len(channel) < 1
    /\ IF receiverOpen
       THEN /\ channel' = Append(channel, pending[p].v)
            /\ pushed' = pushed \cup {pending[p].v.uid}
            /\ UNCHANGED logs
       ELSE /\ logs' = Log("send_error")
            /\ UNCHANGED <<channel, pushed>>
    /\ pending' = [pending EXCEPT ![p] = None]
    /\ listenerPc' = [listenerPc EXCEPT ![p] = "recv"]
    /\ UNCHANGED delivered
    /\ UNCHANGED listenerFrame

\* A listener that ends its loop when the send fails.
Listener_send_error_ends(p) ==
    /\ Running
    /\ listenerPc[p] = "send"
    /\ IF receiverOpen
       THEN /\ channel' = Append(channel, pending[p].v)
            /\ pushed' = pushed \cup {pending[p].v.uid}
            /\ listenerPc' = [listenerPc EXCEPT ![p] = "recv"]
            /\ UNCHANGED logs
       ELSE /\ logs' = Log("send_error")
            /\ listenerPc' = [listenerPc EXCEPT ![p] = "done"]
            /\ UNCHANGED <<channel, pushed>>
    /\ pending' = [pending EXCEPT ![p] = None]
    /\ UNCHANGED delivered
    /\ UNCHANGED listenerFrame

\* sender.send(envelope) on the unbounded channel: the envelope is queued at
\* once; a send error (the receiver is gone) is logged. The loop goes back to
\* recv_from either way.
Listener_send(p) ==
    /\ Running
    /\ listenerPc[p] = "send"
    /\ IF receiverOpen
       THEN /\ channel' = Append(channel, pending[p].v)
            /\ pushed' = pushed \cup {pending[p].v.uid}
            /\ UNCHANGED logs
       ELSE /\ logs' = Log("send_error")
            /\ UNCHANGED <<channel, pushed>>
    /\ pending' = [pending EXCEPT ![p] = None]
    /\ listenerPc' = [listenerPc EXCEPT ![p] = "recv"]
    /\ UNCHANGED delivered
    /\ UNCHANGED listenerFrame

----------------------------------------------------------------------------
(* DatabaseListener::start *)

consumerFrame == <<build, input, env, databaseUrl, canonIn, canonOut, schema, starts,
                   mainPc, exitCode, listenerPc, delivered, pending,
                   pushed>>

\* receiver.recv() returned an envelope; to_message gave a record.
Consumer_recv_some ==
    /\ Running
    /\ consumerPc = "recv"
    /\ channel # <<>>
    /\ canonicalize(build, Head(channel)).kind = "Some"
    /\ channel' = Tail(channel)
    /\ consumed' = Append(consumed, Head(channel).uid)
    /\ current' = Some([src |-> Head(channel).uid,
                        rec |-> canonicalize(build, Head(channel)).rec])
    /\ consumerPc' = "lock"
    /\ UNCHANGED <<handleRefs, lockHolders, receiverOpen, db, writeFailed, logs>>
    /\ UNCHANGED consumerFrame

\* A consumer that takes the guard before it calls to_message and keeps it
\* when there is nothing to insert.
Consumer_recv_none_locked ==
    /\ Running
    /\ consumerPc = "recv"
    /\ channel # <<>>
    /\ canonicalize(build, Head(channel)).kind = "None"
    /\ lockHolders = {}
    /\ lockHolders' = {"consumer"}
    /\ channel' = Tail(channel)
    /\ consumed' = Append(consumed, Head(channel).uid)
    /\ logs' = Log("unsupported_warn")
    /\ UNCHANGED <<handleRefs, receiverOpen, consumerPc, current, db, writeFailed>>
    /\ UNCHANGED consumerFrame

\* receiver.recv() returned an envelope; to_message warned and gave None.
Consumer_recv_none ==
    /\ Running
    /\ consumerPc = "recv"
    /\ channel # <<>>
    /\ canonicalize(build, Head(channel)).kind = "None"
    /\ channel' = Tail(channel)
    /\ consumed' = Append(consumed, Head(channel).uid)
    /\ logs' = Log("unsupported_warn")
    /\ UNCHANGED <<handleRefs, lockHolders, receiverOpen, consumerPc, current, db,
                   writeFailed>>
    /\ UNCHANGED consumerFrame

\* receiver.recv() returned an envelope; to_message panicked: the task ends,
\* and its receiver (with what is queued) and its handle are dropped.
Consumer_recv_panic ==
    /\ Running
    /\ consumerPc = "recv"
    /\ channel # <<>>
    /\ canonicalize(build, Head(channel)).kind = "Panic"
    /\ channel' = <<>>
    /\ consumed' = Append(consumed, Head(channel).uid)
    /\ consumerPc' = "panicked"
    /\ receiverOpen' = FALSE
    /\ handleRefs' = handleRefs \ {"consumer"}
    /\ UNCHANGED <<lockHolders, current, db, writeFailed, logs>>
    /\ UNCHANGED consumerFrame

\* A consumer that goes on to the insert without taking the guard.
Consumer_lock_skip ==
    /\ Running
    /\ consumerPc = "lock"
    /\ consumerPc' = "insert"
    /\ UNCHANGED <<handleRefs, lockHolders, channel, receiverOpen, current, consumed,
                   db, writeFailed, logs>>
    /\ UNCHANGED consumerFrame

\* database.lock(): FairMutex::lock waits until no guard is out.
Consumer_lock ==
    /\ Running
    /\ consumerPc = "lock"
    /\ lockHolders = {}
    /\ lockHolders' = {"consumer"}
    /\ consumerPc' = "insert"
    /\ UNCHANGED <<handleRefs, channel, receiverOpen, current, consumed, db,
                   writeFailed, logs>>
    /\ UNCHANGED consumerFrame

\* A consumer that leaves its loop when insert_message fails.
Consumer_insert_breaks ==
    /\ Running
    /\ consumerPc = "insert"
    /\ \E fault \in 0..Len(StorageSteps) :
        LET r == insert_message(db, current.v, fault)
        IN  /\ db' = r.store
            /\ IF r.ok
               THEN /\ consumerPc' = "recv"
                    /\ UNCHANGED <<writeFailed, logs>>
               ELSE /\ consumerPc' = "done"
                    /\ writeFailed' = writeFailed \cup {current.v.src}
                    /\ logs' = Log("storage_error")
    /\ lockHolders' = lockHolders \ {"consumer"}
    /\ current' = None
    /\ UNCHANGED <<handleRefs, channel, receiverOpen, consumed>>
    /\ UNCHANGED consumerFrame

\* db.insert_message(message); the guard goes out of scope at the end of the
\* if block and the loop goes back to receiver.recv().
Consumer_insert ==
    /\ Running
    /\ consumerPc = "insert"
    /\ \E fault \in 0..Len(StorageSteps) :
        LET r == insert_message(db, current.v, fault)
        IN  /\ db' = r.store
            /\ IF r.ok
               THEN UNCHANGED <<writeFailed, logs>>
               ELSE /\ writeFailed' = writeFailed \cup {current.v.src}
                    /\ logs' = Log("storage_error")
    /\ lockHolders' = lockHolders \ {"consumer"}
    /\ current' = None
    /\ consumerPc' = "recv"
    /\ UNCHANGED <<handleRefs, channel, receiverOpen, consumed>>
    /\ UNCHANGED consumerFrame

----------------------------------------------------------------------------

Next ==
    \/ Main_database
    \/ Main_db_listener
    \/ Main_protocols
    \/ Main_run_listener
    \/ Main_webserver
    \/ \E p \in Protocols : Listener_bind(p)
    \/ \E p \in Protocols : Listener_recv_error(p)
    \/ \E p \in Protocols : Listener_decode_error(p)
    \/ \E p \in Protocols, v \in Variants : Listener_message(p, v)
    \/ \E p \in Protocols : Listener_send(p)
    \/ Consumer_recv_some
    \/ Consumer_recv_none
    \/ Consumer_recv_panic
    \/ Consumer_lock
    \/ Consumer_insert

Spec == Init /\ [][Next]_vars

----------------------------------------------------------------------------
(* to_message by itself *)

\* The ack, timestamp, freq, tail and level values the messages are built of.
AckValues ==
    {None, Some(AckBool(TRUE)), Some(AckBool(FALSE)), Some(AckString("!")),
     Some(AckString("NAK")), Some(AckString("true"))}

TimestampValues ==
    {None, Some(NaN), Some(F64Of(0, 0)), Some(F64Of(0, 999)),
     Some(F64Of(1700000000, 250)),
     Some(F64Seconds(TRUE, 0, 1, 500)),
     Some(F64Seconds(FALSE, I32_MAX \div Limb, I32_MAX % Limb, 0)),
     Some(F64Seconds(FALSE, I32_MAX \div Limb, I32_MAX % Limb, 500)),
     Some(F64Seconds(FALSE, (I32_MAX \div Limb) + 1, 0, 0)),
     Some(F64Seconds(FALSE, 61035, 10240, 0)),
     Some(F64Seconds(TRUE, (I32_MAX \div Limb) + 1, 0, 0)),
     Some(F64Seconds(TRUE, (I32_MAX \div Limb) + 1, 0, 500)),
     Some(F64Seconds(TRUE, (I32_MAX \div Limb) + 1, 1, 0))}

FreqValues == {0, 118000, 131550, 136975}

TailValues == {None, Some("N123AB")}

LevelValues ==
    {None, Some([tag |-> "I32", v |-> -12]), Some([tag |-> "Float64", v |-> -10500])}

AcarsMessages ==
    {[AbsentAcars EXCEPT !.ack = a, !.timestamp = t, !.freq = f, !.tail = tl,
                         !.level = lv] :
        a \in AckValues, t \in TimestampValues, f \in FreqValues, tl \in TailValues,
        lv \in LevelValues}

\* The whole seconds of a VDL-M2 or HFDL timestamp: 0, a date of 2023,
\* i32::MAX, 2^31, 2^32 - 1, 2^32, 2^32 + 7 and 3 * 2^31 + 1.
SecValues ==
    {SecOf(0, 0), SecOf(1700000001 \div Limb, 1700000001 % Limb),
     SecOf(I32_MAX \div Limb, I32_MAX % Limb), SecOf(Limb \div 2, 0),
     SecOf(Limb - 1, Limb - 1), SecOf(Limb, 0), SecOf(Limb, 7),
     SecOf(Limb + (Limb \div 2), 1)}

UsecValues == {0, 5, 999999}

TimeValues == {None} \cup {Some([sec |-> sc, usec |-> us]) : sc \in SecValues, us \in UsecValues}

\* VDL-M2 and HFDL messages with every timestamp of TimeValues.
TimedMessages ==
    {[variant |-> "Vdlm2Message", vdl2 |-> [t |-> t, station |-> Some("m1")]] :
        t \in TimeValues}
    \cup {[variant |-> "HfdlMessage", hfdl |-> [t |-> t, station |-> Some("m1")]] :
        t \in TimeValues}

\* The decoded messages to_message is called on.
CanonMessages ==
    {[variant |-> "AcarsMessage", acars |-> m] : m \in AcarsMessages}
        \cup {DecodedMessage(v, "m1") : v \in Variants \ {"AcarsMessage"}}
        \cup TimedMessages

CanonInit ==
    /\ build \in Builds
    /\ input = [enable_acars |-> TRUE, enable_vdlm |-> FALSE, enable_hfdl |-> FALSE,
                enable_imsl |-> FALSE, enable_irdm |-> FALSE]
    /\ canonIn \in {Some(Envelope(build, p, m, "m1")) :
                        p \in Protocols, m \in CanonMessages}
    /\ canonOut = None
    /\ env = PlainEnv
    /\ databaseUrl = None
    /\ schema = MIGRATIONS
    /\ starts = 1
    /\ db = EmptyStore
    /\ NotStarted

\* let message_processed = message.to_message();
Canonicalize ==
    /\ canonIn.some
    /\ ~canonOut.some
    /\ canonOut' = Some(canonicalize(build, canonIn.v))
    /\ UNCHANGED <<build, input, env, databaseUrl, canonIn, schema, starts>>
    /\ UNCHANGED <<mainPc, exitCode, handleRefs, logs>>
    /\ UNCHANGED pipelineVars

CanonNext == Canonicalize

CanonSpec == CanonInit /\ [][CanonNext]_vars

----------------------------------------------------------------------------
(* insert_message by itself, on stores with alert terms *)

MaxArchiveInserts == 2

AlertTermValues == {"MAYDAY", "PAN"}

TextValues == {"MAYDAY FUEL", "PAN PAN MEDICAL", "ROUTINE"}

\* A canonical ACARS record with the given text.
RowWithText(uid, text) ==
    [src |-> uid, rec |-> [acars_message(AcarsSample(uid)) EXCEPT !.msg_text = text]]

ArchiveInit ==
    /\ build \in Builds
    /\ input = [enable_acars |-> TRUE, enable_vdlm |-> FALSE, enable_hfdl |-> FALSE,
                enable_imsl |-> FALSE, enable_irdm |-> FALSE]
    /\ env = PlainEnv
    /\ databaseUrl = None
    /\ canonIn = None
    /\ canonOut = None
    /\ schema = MIGRATIONS
    /\ starts = 1
    /\ \E tracked \in SUBSET AlertTermValues, ignored \in SUBSET AlertTermValues :
        db = [EmptyStore EXCEPT !.alert_terms = tracked, !.ignore_terms = ignored]
    /\ NotStarted

\* db.insert_message(message) on a record with one of the texts.
Archive_insert ==
    /\ Len(db.rows) < MaxArchiveInserts
    /\ \E text \in TextValues, fault \in 0..Len(StorageSteps) :
        db' = insert_message(db, RowWithText(Uid(Len(db.rows) + 1), text), fault).store
    /\ UNCHANGED <<build, input, env, databaseUrl, canonIn, canonOut, schema, starts>>
    /\ UNCHANGED <<mainPc, exitCode, handleRefs, logs, listenerPc, delivered, pending,
                   pushed, channel, receiverOpen, consumerPc, current, consumed,
                   writeFailed, lockHolders>>

ArchiveNext == Archive_insert

ArchiveSpec == ArchiveInit /\ [][ArchiveNext]_vars

----------------------------------------------------------------------------
(* The start of the listeners, for every combination of enable flags *)

\* for feature in &self.enabled_features { start_udp_listener(..) }: how many
\* tasks run_listener spawns for protocol p.
SpawnCount(features, p) == Cardinality({i \in 1..Len(features) : features[i] = p})

\* The enable flag of a protocol.
EnableFlag(in, p) ==
    CASE p = "Acars" -> in.enable_acars
      [] p = "Vdlm" -> in.enable_vdlm
      [] p = "Hfdl" -> in.enable_hfdl
      [] p = "Imsl" -> in.enable_imsl
      [] p = "Irdm" -> in.enable_irdm

\* The port a listener task holds: the one it bound, while it has its socket.
BoundPort(p) ==
    IF listenerPc[p] \in {"recv", "send"} THEN Some(to_tcp_udp_port(p)) ELSE None

ListenersInit ==
    /\ build \in Builds
    /\ input \in Inputs
    /\ env = PlainEnv
    /\ databaseUrl = None
    /\ canonIn = None
    /\ canonOut = None
    /\ schema = {}
    /\ starts = 1
    /\ db = EmptyStore
    /\ NotStarted

ListenersNext ==
    \/ Main_database
    \/ Main_db_listener
    \/ Main_protocols
    \/ Main_run_listener
    \/ \E p \in Protocols : Listener_bind(p)

ListenersSpec == ListenersInit /\ [][ListenersNext]_vars

----------------------------------------------------------------------------
(* Startup on one store file, run after run *)

\* The process has ended, or is ended, and is started again on the same store
\* file: its tasks, queue and handles are gone; the store and the log stream
\* stay.
Restart ==
    /\ mainPc # "database"
    /\ starts < MaxStarts
    /\ starts' = starts + 1
    /\ mainPc' = "database"
    /\ exitCode' = -1
    /\ handleRefs' = {}
    /\ lockHolders' = {}
    /\ listenerPc' = [p \in Protocols |-> "unspawned"]
    /\ delivered' = <<>>
    /\ pending' = [p \in Protocols |-> None]
    /\ pushed' = {}
    /\ channel' = <<>>
    /\ receiverOpen' = FALSE
    /\ consumerPc' = "unspawned"
    /\ current' = None
    /\ consumed' = <<>>
    /\ writeFailed' = {}
    /\ databaseUrl' = None
    /\ UNCHANGED <<build, input, env, canonIn, canonOut, schema, db, logs>>

StartupInit ==
    /\ build \in Builds
    /\ input \in InputSpace
    /\ env \in EnvSpace
    /\ databaseUrl = None
    /\ canonIn = None
    /\ canonOut = None
    /\ schema \in StoreSchemas
    /\ starts = 1
    /\ db = EmptyStore
    /\ NotStarted

StartupNext ==
    \/ Main_database
    \/ Restart

StartupSpec == StartupInit /\ [][StartupNext]_vars

----------------------------------------------------------------------------

\* One iteration step of the consumer's while-let loop.
ConsumerStep ==
    \/ Consumer_recv_some
    \/ Consumer_recv_none
    \/ Consumer_recv_panic
    \/ Consumer_lock
    \/ Consumer_insert

\* The tokio scheduler polls a task that can make progress; the FairMutex is
\* contended by nobody else, so the consumer's lock() returns.
ConsumerFairness == WF_vars(ConsumerStep)

\* The runs explored under fairness: no protocol enabled, or ACARS and VDL-M2.
FairInputs ==
    {in \in InputSpace : enabled_to_vec(in) \in {<<>>, <<"Acars", "Vdlm">>}}

FairInit == Init /\ input \in FairInputs

FairSpec == FairInit /\ [][Next]_vars /\ ConsumerFairness

----------------------------------------------------------------------------
(* Properties *)

\* The consumer waits on an empty channel with nothing in flight.
Drained == consumerPc = "recv" /\ channel = <<>>

\* The datagrams whose rows the primary table holds.
RowSrcs == {db.rows[i].src : i \in 1..Len(db.rows)}

NoDuplicateRows ==
    \A i, j \in 1..Len(db.rows) : db.rows[i].src = db.rows[j].src => i = j

Datagram(uid) == CHOOSE d \in Range(delivered) : d.uid = uid

\* The datagram is decoded and its listener has not yet called send for it.
InFlight(uid) == \E p \in Protocols : pending[p].some /\ pending[p].v.uid = uid

\* The variants the linked to_message has a mapping for.
HasMapping(v) ==
    canonicalize(build, Envelope(build, "Acars", DecodedMessage(v, "m1"), "m1")).kind = "Some"

AllPushedMapped == \A uid \in pushed : HasMapping(Datagram(uid).kind)

RECURSIVE SumOver(_, _)
SumOver(f, S) ==
    IF S = {} THEN 0
    ELSE LET k == CHOOSE x \in S : TRUE IN f[k] + SumOver(f, S \ {k})

\* C1 as stated: once the consumer has drained the channel, the primary table
\* holds exactly one row per pushed message with an implemented mapping: none
\* twice, none lost.
C1_ExactlyOneRowPerPushed ==
    (Drained /\ AllPushedMapped) =>
        /\ NoDuplicateRows
        /\ RowSrcs = pushed
        /\ Len(db.rows) = Cardinality(pushed)

\* C1 as amended: once the consumer has drained the channel, the primary table
\* holds exactly one row per pushed message with an implemented mapping whose
\* storage write did not fail: none twice, and none lost but by a failed write.
C1_OneRowPerPushedUnlessWriteFailed ==
    (Drained /\ AllPushedMapped) =>
        /\ NoDuplicateRows
        /\ RowSrcs = pushed \ writeFailed
        /\ Len(db.rows) = Cardinality(pushed) - Cardinality(writeFailed)

\* Two listeners have each pushed one ACARS message and both rows are in.
C1_Witness ==
    /\ Drained
    /\ Len(delivered) = 2
    /\ delivered[1].port # delivered[2].port
    /\ \A i \in 1..2 : delivered[i].kind = "AcarsMessage" /\ delivered[i].uid \in pushed
    /\ Len(db.rows) = 2

\* C2: at most one task holds the lock of the storage handle, the consumer
\* holds it whenever it is about to call insert_message, and the store changes
\* only in a step of the consumer that holds it.
C2_InsertUnderLock ==
    /\ [](/\ Cardinality(lockHolders) <= 1
          /\ (consumerPc = "insert" => lockHolders = {"consumer"}))
    /\ [][db' # db => (consumerPc = "insert" /\ "consumer" \in lockHolders)]_vars

\* The consumer holds the lock for its second insert.
C2_Witness ==
    /\ consumerPc = "insert"
    /\ lockHolders = {"consumer"}
    /\ Len(db.rows) = 1

C4_AllOrNothing ==
    /\ db.fts = 1..Len(db.rows)
    /\ db.count.total = Len(db.rows)
    /\ db.count.good + db.count.errors = Len(db.rows)
    /\ SumOver(db.freqs, DOMAIN db.freqs) = Len(db.rows)
    /\ SumOver(db.level, DOMAIN db.level) = Len(db.rows)
    /\ \A i \in 1..Len(db.rows) :
        /\ <<db.rows[i].rec.freq, db.rows[i].rec.message_type>> \in DOMAIN db.freqs
        /\ db.rows[i].rec.level \in DOMAIN db.level
    /\ RowSrcs \cap writeFailed = {}

\* One message was recorded and the unit of work of another one failed.
C4_Witness ==
    /\ Len(db.rows) = 1
    /\ writeFailed # {}
    /\ Drained

\* The consumer takes the head of the channel in this step.
ConsumerTakes == consumerPc = "recv" /\ consumed' # consumed

\* C5: no failure in canonicalization or in the storage write halts the
\* consumer or is retried: once spawned the consumer task is alive with its
\* receiver open, no envelope is processed twice, and with the channel drained
\* every pushed envelope has been processed.
C5_FailureNeverHaltsConsumer ==
    /\ consumerPc \in {"unspawned", "recv", "lock", "insert"}
    /\ (consumerPc # "unspawned" => receiverOpen)
    /\ \A i, j \in 1..Len(consumed) : consumed[i] = consumed[j] => i = j
    /\ (channel = <<>> /\ consumerPc \in {"recv", "panicked"}) => pushed = Range(consumed)

\* C6: canonicalization of every envelope a listener can queue, whatever its
\* variant, ends in a record with every column filled or in nothing.
C6_CanonicalizationTotal ==
    \A i \in 1..Len(channel) :
        LET outcome == canonicalize(build, channel[i])
        IN  /\ outcome.kind \in {"Some", "None"}
            /\ (outcome.kind = "Some" => DOMAIN outcome.rec = NewMessageFields)

\* C7: with the AcarsVdlm2Message consumer, taking an envelope of a variant
\* without a mapping adds no row, keeps totals and histograms, logs exactly
\* one warning and nothing else, and the consumer is back at receive; so every
\* row of the store stems from an ACARS message.
C7_UnsupportedVariantLeavesStore ==
    /\ [][(/\ build = "AcarsVdlm2Message"
           /\ ConsumerTakes
           /\ Head(channel).message.variant # "AcarsMessage")
          => /\ db' = db
             /\ logs' = Log("unsupported_warn")
             /\ consumerPc' = "recv"
             /\ current' = current
             /\ lockHolders' = lockHolders
             /\ writeFailed' = writeFailed]_vars
    /\ [](build = "AcarsVdlm2Message" =>
            \A uid \in RowSrcs : Datagram(uid).kind = "AcarsMessage")

\* A warning was logged for an unsupported envelope and the one row of the
\* store is the one recorded before it.
C7_Witness ==
    /\ build = "AcarsVdlm2Message"
    /\ logs["unsupported_warn"] = 1
    /\ Len(delivered) = 2
    /\ delivered[1].kind = "AcarsMessage"
    /\ delivered[2].kind = "HfdlMessage"
    /\ Len(db.rows) = 1
    /\ db.count.total = 1
    /\ Drained

\* A malformed datagram on one socket and a well-formed one on another.
OtherSocketPairs ==
    {<<i, j>> \in (1..Len(delivered)) \X (1..Len(delivered)) :
        /\ delivered[i].kind = "malformed"
        /\ delivered[j].kind # "malformed"
        /\ delivered[j].port # delivered[i].port}

\* C8 as stated (AcarsVdlm2Message listeners, no storage write failing): a
\* well-formed datagram received on another socket than a malformed one is
\* pushed by its listener's send and, once the channel is drained, persisted.
C8_WellFormedPushedAndPersisted ==
    (build = "AcarsVdlm2Message" /\ Drained /\ writeFailed = {}) =>
        \A pr \in OtherSocketPairs :
            ~InFlight(delivered[pr[2]].uid) =>
                /\ delivered[pr[2]].uid \in pushed
                /\ delivered[pr[2]].uid \in RowSrcs

\* C8 as amended (AcarsVdlm2Message listeners): a decode error changes
\* nothing but the log and the count of datagrams received: no listener, the
\* channel, the consumer and the store are touched; a well-formed datagram on
\* another socket is pushed by its listener's send, and once the channel is drained it is persisted
\* if its variant has a mapping and its storage write did not fail.
C8_MalformedLeavesOtherSocket ==
    /\ [][(build = "AcarsVdlm2Message" /\ logs'["decode_error"] # logs["decode_error"])
          => UNCHANGED <<listenerPc, pending, pushed, channel, receiverOpen,
                         consumerPc, current, consumed, db, writeFailed, lockHolders,
                         mainPc, exitCode>>]_vars
    /\ [](build = "AcarsVdlm2Message" =>
            \A pr \in OtherSocketPairs :
                LET d == delivered[pr[2]]
                IN  ~InFlight(d.uid) =>
                        /\ d.uid \in pushed
                        /\ (Drained /\ HasMapping(d.kind) /\ d.uid \notin writeFailed)
                            => d.uid \in RowSrcs)

\* A malformed datagram came first on one socket, and the ACARS message that
\* came after it on another socket is in the store.
C8_Witness ==
    /\ build = "AcarsVdlm2Message"
    /\ Len(delivered) = 2
    /\ delivered[1].kind = "malformed"
    /\ delivered[2].kind = "AcarsMessage"
    /\ delivered[2].port # delivered[1].port
    /\ delivered[2].uid \in RowSrcs

\* C9: the step in which a listener ends on a bind or receive failure changes
\* only that listener and the log: every other listener stays where it is,
\* the consumer, the channel and the store are untouched, and the process
\* does not exit.
C9_FailureEndsOnlyThatListener ==
    [][\A p \in Protocols :
        (listenerPc[p] # "done" /\ listenerPc'[p] = "done")
        => /\ \A q \in Protocols \ {p} : listenerPc'[q] = listenerPc[q]
           /\ \/ logs' = Log("bind_error")
              \/ logs' = Log("recv_error")
           /\ UNCHANGED <<mainPc, exitCode, consumerPc, receiverOpen, channel, pushed,
                          pending, current, consumed, db, writeFailed, lockHolders,
                          handleRefs>>]_vars

\* One listener has ended, and the message another listener received after
\* that was persisted while the process runs on.
C9_Witness ==
    /\ Running
    /\ \E p, q \in Protocols :
        /\ p # q
        /\ listenerPc[p] = "done"
        /\ listenerPc[q] = "recv"
        /\ logs["bind_error"] + logs["recv_error"] = 1
        /\ Len(delivered) = 1
        /\ delivered[1].port = q
        /\ delivered[1].uid \in RowSrcs

\* C10: nothing is pushed for a datagram that failed to decode, and every
\* well-formed datagram that arrived after it on the same socket was pushed
\* by the send that followed its decoding.
C10_DecodeFailureThenContinue ==
    /\ \A i \in 1..Len(delivered) :
        delivered[i].kind = "malformed" => delivered[i].uid \notin pushed
    /\ \A i, j \in 1..Len(delivered) :
        (/\ i < j
         /\ delivered[i].kind = "malformed"
         /\ delivered[j].kind # "malformed"
         /\ delivered[j].port = delivered[i].port
         /\ ~InFlight(delivered[j].uid))
        => delivered[j].uid \in pushed

\* The uids in the order their envelopes went onto the channel, as far as the
\* channel and the consumer still show it.
PushOrder == consumed \o [i \in 1..Len(channel) |-> channel[i].uid]

\* The uids of the rows in the order of their insertion.
RowOrder == [i \in 1..Len(db.rows) |-> db.rows[i].src]

Pos(seq, x) == CHOOSE i \in 1..Len(seq) : seq[i] = x

\* If b is in seq then a is too, and earlier.
Precedes(seq, a, b) ==
    b \in Range(seq) => (a \in Range(seq) /\ Pos(seq, a) < Pos(seq, b))

\* Two well-formed datagrams of one socket, in the order of their arrival.
SameSocketPairs ==
    {<<i, j>> \in (1..Len(delivered)) \X (1..Len(delivered)) :
        /\ i < j
        /\ delivered[i].port = delivered[j].port
        /\ delivered[i].kind # "malformed"
        /\ delivered[j].kind # "malformed"}

\* Two well-formed datagrams of different sockets, in the order of arrival.
CrossSocketPairs ==
    {<<i, j>> \in (1..Len(delivered)) \X (1..Len(delivered)) :
        /\ i < j
        /\ delivered[i].port # delivered[j].port
        /\ delivered[i].kind # "malformed"
        /\ delivered[j].kind # "malformed"}

\* C11: of two well-formed datagrams received on one socket, the later one is
\* pushed only after the earlier one, consumed only after it, and, when both
\* are inserted, inserted after it; the later one has a row only if the
\* earlier one has one, had no mapping, or failed in its storage write.
C11_SameSocketOrderKept ==
    \A pr \in SameSocketPairs :
        LET a == delivered[pr[1]]
            b == delivered[pr[2]]
        IN  /\ b.uid \in pushed => a.uid \in pushed
            /\ Precedes(PushOrder, a.uid, b.uid)
            /\ Precedes(consumed, a.uid, b.uid)
            /\ (a.uid \in RowSrcs /\ b.uid \in RowSrcs) =>
                    Pos(RowOrder, a.uid) < Pos(RowOrder, b.uid)
            /\ b.uid \in RowSrcs =>
                    \/ a.uid \in RowSrcs
                    \/ a.uid \in writeFailed
                    \/ ~HasMapping(a.kind)

\* Two ACARS messages of one socket were inserted in the order they arrived.
C11_Witness ==
    \E pr \in SameSocketPairs :
        /\ Len(db.rows) = 2
        /\ db.rows[1].src = delivered[pr[1]].uid
        /\ db.rows[2].src = delivered[pr[2]].uid

\* C11, second part: between sockets the order of arrival is not the order on
\* the channel: this state, in which the datagram received later on another
\* socket was inserted first, is reachable.
C11_CrossSocketInversion ==
    \E pr \in CrossSocketPairs :
        /\ Len(db.rows) = 2
        /\ db.rows[1].src = delivered[pr[2]].uid
        /\ db.rows[2].src = delivered[pr[1]].uid

\* C12: a listener that has an envelope to send can send it in every state,
\* whatever the length of the channel, the position of the consumer and the
\* holder of the storage lock.
C12_PushNeverBlocks ==
    \A p \in Protocols :
        (Running /\ listenerPc[p] = "send") => ENABLED Listener_send(p)

\* A listener is about to send while an envelope is queued and the consumer
\* is in its storage write, holding the lock.
C12_Witness ==
    /\ \E p \in Protocols : listenerPc[p] = "send"
    /\ Len(channel) >= 1
    /\ consumerPc = "insert"
    /\ lockHolders = {"consumer"}

SourceAcars(row) == DecodedMessage("AcarsMessage", row.src).acars

AcarsRows ==
    {i \in 1..Len(db.rows) : Datagram(db.rows[i].src).kind = "AcarsMessage"}

\* The canonical fields an AcarsMessage cannot express.
NotInAcars ==
    {"fromaddr", "depa", "dsta", "eta", "gtout", "gtin", "wloff", "wlin", "lat",
     "lon", "alt", "libacars"}

\* The canonical content fields read from an optional field of the same name.
OptionalInAcars ==
    {"station_id", "ack", "toaddr", "tail", "flight", "icao", "mode", "label",
     "block_id", "msgno", "is_onground", "is_response", "error", "level"}

\* The canonical field f has no value in the message msg.
AbsentIn(msg, f) ==
    \/ f \in NotInAcars
    \/ f = "msg_text" /\ ~msg.text.some
    \/ f \in OptionalInAcars /\ ~msg[f].some

\* C14: every content field of a row that its ACARS source message does not
\* have, or cannot express, holds the empty string.
C14_AbsentFieldIsEmptyString ==
    \A i \in AcarsRows :
        \A f \in NewMessageFields \ {"msg_time"} :
            AbsentIn(SourceAcars(db.rows[i]), f) => db.rows[i].rec[f] = ""

\* to_message was called on an ACARS message and returned a record.
CanonAcarsDone ==
    /\ canonOut.some
    /\ canonOut.v.kind = "Some"
    /\ canonIn.v.message.variant = "AcarsMessage"

\* C15: the ack of the record is "true" for the boolean true, "false" for
\* the boolean false, the string itself for a native string and "" for an
\* absent ack, whatever the other fields of the message, the listener it came
\* from and the crate generation are.
C15_AckText ==
    CanonAcarsDone =>
        LET a == canonIn.v.message.acars.ack
            text == canonOut.v.rec.ack
        IN  /\ ~a.some => text = ""
            /\ (a.some /\ a.v.tag = "Bool" /\ a.v.b) => text = "true"
            /\ (a.some /\ a.v.tag = "Bool" /\ ~a.v.b) => text = "false"
            /\ (a.some /\ a.v.tag = "String") => text = a.v.s

\* The boolean false came out as "false" next to an out-of-range timestamp.
C15_Witness ==
    /\ CanonAcarsDone
    /\ canonIn.v.message.acars.ack = Some(AckBool(FALSE))
    /\ canonIn.v.message.acars.timestamp = Some(NaN)
    /\ canonOut.v.rec.ack = "false"

\* C16: an ACARS message with ack = true, freq = 131.550 and no tail number
\* (the message every ACARS datagram of Spec decodes to), canonicalized by the
\* AcarsVdlm2Message consumer or received on the ACARS socket, is inserted as
\* the row that acars_message returns for it, with ack = "true",
\* freq = "131.55", tail = "" and message_type = "ACARS".
C16_AcarsScenarioRow ==
    \A i \in AcarsRows :
        (build = "AcarsVdlm2Message" \/ Datagram(db.rows[i].src).port = "Acars") =>
            LET msg == SourceAcars(db.rows[i])
                rec == db.rows[i].rec
            IN  /\ msg.ack = Some(AckBool(TRUE))
                /\ msg.freq = 131550
                /\ ~msg.tail.some
                /\ rec.ack = "true"
                /\ rec.freq = "131.55"
                /\ rec.tail = ""
                /\ rec.message_type = "ACARS"
                /\ DOMAIN rec = NewMessageFields
                /\ rec = acars_message(msg)

\* The row of such a message, received on the VDL-M2 socket, is in the store.
C16_Witness ==
    /\ build = "AcarsVdlm2Message"
    /\ Len(db.rows) = 1
    /\ Datagram(db.rows[1].src).kind = "AcarsMessage"
    /\ Datagram(db.rows[1].src).port = "Vdlm"
    /\ db.rows[1].rec.freq = "131.55"

\* The whole seconds of t, with the fraction cut off, are an i32.
WholePartFits(t) ==
    IF t.neg
    THEN \/ t.hi <= I32_MAX \div Limb
         \/ t.hi = (I32_MAX \div Limb) + 1 /\ t.lo = 0
    ELSE t.hi <= I32_MAX \div Limb

\* t itself, fraction included, lies between i32::MIN and i32::MAX.
ValueFits(t) ==
    /\ WholePartFits(t)
    /\ ~(/\ ~t.neg
         /\ t.hi = I32_MAX \div Limb
         /\ t.lo = I32_MAX % Limb
         /\ t.frac > 0)
    /\ ~(t.neg /\ t.hi = (I32_MAX \div Limb) + 1 /\ t.frac > 0)

\* C17 as stated: msg_time of an ACARS message is an i32; it is the whole
\* seconds of the timestamp when those fit the i32 range, and 0 when the
\* timestamp is absent or cannot be narrowed.
C17_MsgTimeWholeSecondsOrZero ==
    CanonAcarsDone =>
        LET t == canonIn.v.message.acars.timestamp
            msg_time == canonOut.v.rec.msg_time
        IN  /\ msg_time \in I32_MIN..I32_MAX
            /\ IF t.some /\ ~t.v.nan /\ WholePartFits(t.v)
               THEN msg_time = TruncToI32(t.v)
               ELSE msg_time = 0

\* C17 as amended: msg_time of an ACARS message is an i32; it is the whole
\* seconds of the timestamp when the timestamp itself, fraction included,
\* lies within the i32 range, and 0 when the timestamp is absent, not a
\* number or outside that range; the mapping never fails or wraps.
C17_MsgTimeInRangeOrZero ==
    CanonAcarsDone =>
        LET t == canonIn.v.message.acars.timestamp
            msg_time == canonOut.v.rec.msg_time
        IN  /\ msg_time \in I32_MIN..I32_MAX
            /\ IF t.some /\ ~t.v.nan /\ ValueFits(t.v)
               THEN msg_time = TruncToI32(t.v)
               ELSE msg_time = 0

\* A timestamp one second beyond the i32 range came out as 0.
C17_Witness ==
    /\ CanonAcarsDone
    /\ canonIn.v.message.acars.timestamp
            = Some(F64Seconds(FALSE, (I32_MAX \div Limb) + 1, 0, 0))
    /\ canonOut.v.rec.msg_time = 0

\* C18: the message_type of every row of the primary table is one of the five
\* protocol names; it is never empty.
C18_MessageTypeIsProtocolName ==
    \A i \in 1..Len(db.rows) :
        db.rows[i].rec.message_type
            \in {"ACARS", "VDL-M2", "HFDL", "Inmarsat L-Band", "Iridium"}

\* Rows were inserted by both consumers' mappings: one whose message_type is
\* the name of the listener's protocol is in the store.
C18_Witness ==
    /\ build = "FoundMessage"
    /\ Len(db.rows) = 2
    /\ db.rows[1].rec.message_type = "ACARS"
    /\ db.rows[2].rec.message_type = "VDL-M2"

----------------------------------------------------------------------------
(* C19 *)

\* A writer of the store exists or has written: the consumer task or a
\* listener task has been spawned, or the store holds something.
WriterStarted ==
    \/ consumerPc # "unspawned"
    \/ \E p \in Protocols : listenerPc[p] # "unspawned"
    \/ db # EmptyStore
    \/ writeFailed # {}

\* The migration run of this start returned Ok: it logged what it ran, or that
\* there was nothing to run, no start-up error was logged and no embedded
\* version is pending.
MigrationRunSucceeded ==
    /\ PendingMigrations(schema) = <<>>
    /\ logs["db_error"] = 0
    /\ logs["no_migrations"] + logs["migration_ran"] > 0

\* C19: the consumer task is spawned, a listener task is spawned and the store
\* is written only after the start-up migration run has returned Ok; a start
\* whose connection or migration run fails never spawns a task.
C19_MigrationsBeforeWriters ==
    /\ WriterStarted => MigrationRunSucceeded
    /\ logs["db_error"] > 0 => (~WriterStarted /\ exitCode = 69)

\* Both migrations ran on a new store file, then a listener received a
\* message and the consumer stored it.
C19_Witness ==
    /\ logs["migration_ran"] = MaxMigrations
    /\ schema = MIGRATIONS
    /\ \E p \in Protocols : listenerPc[p] # "unspawned"
    /\ consumerPc # "unspawned"
    /\ Len(db.rows) = 1

----------------------------------------------------------------------------
(* C20 *)

\* A step that is the start-up migration run of a start after the first.
LaterStartup == mainPc = "database" /\ mainPc' # "database" /\ starts >= 2

\* C20: a start after the first, on a store that has every embedded migration
\* recorded, runs no migration and leaves the recorded versions as they are;
\* when it connects it reports that there was nothing to run.
C20_SecondStartupAppliesNothing ==
    [][(LaterStartup /\ PendingMigrations(schema) = <<>>)
       => /\ schema' = schema
          /\ logs'["migration_ran"] = logs["migration_ran"]
          /\ db' = db
          /\ (mainPc' = "db_listener" =>
                logs'["no_migrations"] = logs["no_migrations"] + 1)]_vars

\* The first start ran both migrations on a new store file; the second start
\* found nothing to run.
C20_Witness ==
    /\ starts = 2
    /\ mainPc = "db_listener"
    /\ schema = MIGRATIONS
    /\ logs["migration_ran"] = MaxMigrations
    /\ logs["no_migrations"] = 1

----------------------------------------------------------------------------
(* C21 *)

\* C21: the path the process connects to is the legacy path when a file
\* exists there, whatever is configured, and the warning is logged then and
\* only then; otherwise it is the configured path when one is set, otherwise
\* the default path.
C21_StorePathChoice ==
    databaseUrl.some =>
        /\ databaseUrl.v =
            IF env.legacy_exists THEN LegacyPath
            ELSE IF ConfiguredPath(build, env).some THEN ConfiguredPath(build, env).v
            ELSE DefaultPath(build)
        /\ env.legacy_exists => logs["legacy_warn"] = starts
        /\ ~env.legacy_exists => logs["legacy_warn"] = 0

\* A path is configured, a file exists at the legacy path, and the process
\* connected to the legacy path and warned.
C21_Witness ==
    /\ ConfiguredPath(build, env).some
    /\ env.legacy_exists
    /\ databaseUrl = Some(LegacyPath)
    /\ logs["legacy_warn"] = 1
    /\ mainPc = "db_listener"

----------------------------------------------------------------------------
(* C22 *)

\* C22: when the connection or the migration run fails, the process has
\* exited with 69 and neither the consumer nor a listener was ever spawned;
\* and 69 is the status of no other exit, as a number and as the low byte the
\* parent sees: a process that exited with it logged the start-up error.
C22_StoreFailureExits69 ==
    /\ logs["db_error"] > 0 =>
        /\ mainPc = "exited"
        /\ exitCode = 69
        /\ consumerPc = "unspawned"
        /\ \A p \in Protocols : listenerPc[p] = "unspawned"
    /\ (mainPc = "exited" /\ ExitStatus(exitCode) = ExitStatus(69)) =>
        (exitCode = 69 /\ logs["db_error"] = 1)
    /\ mainPc = "exited" => ExitStatus(exitCode) # 0

\* The second migration failed: the first stays applied and the process has
\* exited with 69.
C22_Witness ==
    /\ mainPc = "exited"
    /\ exitCode = 69
    /\ schema = {1}
    /\ logs["db_error"] = 1
    /\ consumerPc = "unspawned"

----------------------------------------------------------------------------
(* C23 *)

\* No enable flag is set.
NoProtocolEnabled == enabled_to_vec(input) = <<>>

\* C23: with no protocol enabled, main never gets past the check of the list:
\* the step that checks it exits the process with 420 and logs the error, no
\* listener task is ever spawned, no socket bound, no datagram received and
\* no row inserted.
C23_NoProtocolIsFatal ==
    /\ [](NoProtocolEnabled =>
            /\ mainPc \in {"database", "db_listener", "protocols", "exited"}
            /\ \A p \in Protocols : listenerPc[p] = "unspawned"
            /\ delivered = <<>>
            /\ pushed = {}
            /\ db = EmptyStore)
    /\ [][(NoProtocolEnabled /\ mainPc = "protocols")
          => /\ mainPc' = "exited"
             /\ exitCode' = 420
             /\ logs' = Log("no_protocols")]_vars

\* The store was opened and the consumer spawned, then the process exited
\* because no protocol is enabled.
C23_Witness ==
    /\ NoProtocolEnabled
    /\ mainPc = "exited"
    /\ exitCode = 420
    /\ consumerPc # "unspawned"
    /\ logs["no_protocols"] = 1

----------------------------------------------------------------------------
(* C24 *)

\* C24: the process has exited only because the store could not be opened or
\* migrated (69) or because no protocol is enabled (420), and a consumer that
\* was spawned is still at work.
C24_OnlyStartupFailuresAreFatal ==
    /\ mainPc = "exited" =>
        \/ exitCode = 69 /\ logs["db_error"] = 1
        \/ exitCode = 420 /\ NoProtocolEnabled
    /\ consumerPc \in {"unspawned", "recv", "lock", "insert"}

----------------------------------------------------------------------------
(* C25 *)

\* The datagrams that are on their way to the store: decoded and about to be
\* sent, queued, or taken by the consumer and about to be inserted.
OnTheWay ==
    {pending[p].v.uid : p \in {q \in Protocols : pending[q].some}}
        \cup {channel[i].uid : i \in 1..Len(channel)}
        \cup (IF consumerPc \in {"lock", "insert"} THEN {current.v.src} ELSE {})

\* The datagrams received that are neither stored nor on their way.
Discarded == {d.uid : d \in Range(delivered)} \ (RowSrcs \cup OnTheWay)

\* The log entries of the paths that drop a datagram or a message.
DropLogEntries ==
    logs["decode_error"] + logs["send_error"] + logs["unsupported_warn"]
        + logs["storage_error"]

\* C25: while the process runs, every datagram received that is neither
\* stored nor on its way to the store has its log entry: decode failure,
\* failed push, unsupported variant or failed write; and a listener that
\* ended did so with an entry for the bind or the receive failure.
C25_EveryDropIsLogged ==
    Running =>
        /\ Cardinality(Discarded) = DropLogEntries
        /\ Cardinality({p \in Protocols : listenerPc[p] = "done"})
                = logs["bind_error"] + logs["recv_error"]

----------------------------------------------------------------------------
(* C26 *)

\* C26: whatever the five enable flags are, run_listener spawns one listener
\* task for each enabled protocol and none for a disabled one; a listener
\* that has its socket holds the port of its protocol (ACARS 5550, VDL-M2
\* 5555, HFDL 5556, Inmarsat L-Band 5557, Iridium 5558), and no two
\* protocols have the same port.
C26_OneListenerPerEnabledProtocol ==
    LET FixedPort == [p \in Protocols |->
                        CASE p = "Acars" -> 5550
                          [] p = "Vdlm" -> 5555
                          [] p = "Hfdl" -> 5556
                          [] p = "Imsl" -> 5557
                          [] p = "Irdm" -> 5558]
    IN  /\ \A p \in Protocols :
            /\ SpawnCount(enabled_to_vec(input), p) = IF EnableFlag(input, p) THEN 1 ELSE 0
            /\ listenerPc[p] # "unspawned" => EnableFlag(input, p)
            /\ (mainPc = "webserver" /\ EnableFlag(input, p)) => listenerPc[p] # "unspawned"
            /\ BoundPort(p).some => BoundPort(p).v = FixedPort[p]
        /\ \A p, q \in Protocols :
            (BoundPort(p).some /\ BoundPort(q).some /\ p # q) => BoundPort(p) # BoundPort(q)

\* All five protocols are enabled and all five listeners hold their sockets.
C26_Witness ==
    /\ \A p \in Protocols : EnableFlag(input, p)
    /\ \A p \in Protocols : listenerPc[p] = "recv"
    /\ BoundPort("Hfdl") = Some(5556)

----------------------------------------------------------------------------
(* C27 *)

\* C27: the total counts the rows of the primary table and is the sum of the
\* good and the error count, in every state; and a step changes the total
\* only by adding one, together with the one row it inserts.
C27_TotalsCountEachRowOnce ==
    /\ [](/\ db.count.total = Len(db.rows)
          /\ db.count.total = db.count.good + db.count.errors)
    /\ [][/\ db'.count.total - db.count.total = Len(db'.rows) - Len(db.rows)
          /\ db'.count.total - db.count.total \in {0, 1}
          /\ db'.count.total # db.count.total => consumerPc = "insert"]_vars

\* Two messages were stored and the consumer waits for the next one.
C27_Witness ==
    /\ Drained
    /\ Len(db.rows) = 2
    /\ db.count.total = 2
    /\ db.count.good + db.count.errors = 2

----------------------------------------------------------------------------
(* C28 *)

\* The hit counter of a term, 0 while the term has no counter row.
HitCount(store, t) == IF t \in DOMAIN store.alert_stats THEN store.alert_stats[t] ELSE 0

\* C28: an insert that adds a row to the primary table adds, for every term,
\* one archive row when the term is tracked, not on the ignore list and in the
\* text of the message, and none otherwise; the hit counter of the term goes
\* up by as much; the new archive rows carry the record of the message and
\* the kind of match, and the rows archived before stay as they are.
C28_AlertArchive ==
    [][Len(db'.rows) = Len(db.rows) + 1 =>
        LET row == db'.rows[Len(db'.rows)]
            new == SubSeq(db'.saved, Len(db.saved) + 1, Len(db'.saved))
        IN  /\ Len(db'.saved) >= Len(db.saved)
            /\ SubSeq(db'.saved, 1, Len(db.saved)) = db.saved
            /\ \A t \in AlertTermValues \cup Words(row.rec.msg_text) :
                LET hit == /\ t \in Words(row.rec.msg_text)
                           /\ t \in db.alert_terms
                           /\ t \notin db.ignore_terms
                    n == Cardinality({i \in 1..Len(new) : new[i].term = t})
                IN  /\ n = IF hit THEN 1 ELSE 0
                    /\ HitCount(db', t) = HitCount(db, t) + n
            /\ \A i \in 1..Len(new) :
                /\ new[i].rec = row.rec
                /\ new[i].src = row.src
                /\ new[i].type_of_match = "text"]_vars

\* Both terms are tracked and PAN is on the ignore list; a message with each
\* term was stored: the archive has the one row for MAYDAY, and PAN was
\* neither archived nor counted.
C28_Witness ==
    /\ db.alert_terms = {"MAYDAY", "PAN"}
    /\ db.ignore_terms = {"PAN"}
    /\ {db.rows[i].rec.msg_text : i \in 1..Len(db.rows)} = {"MAYDAY FUEL", "PAN PAN MEDICAL"}
    /\ Len(db.saved) = 1
    /\ db.saved[1].term = "MAYDAY"
    /\ HitCount(db, "MAYDAY") = 1
    /\ HitCount(db, "PAN") = 0

----------------------------------------------------------------------------
(* C29 *)

\* C29: no step removes or changes a row of the primary table: the table of
\* the next state begins with the table of this state, and a step adds at
\* most one row.
C29_PrimaryTableAppendOnly ==
    [][/\ Len(db'.rows) \in {Len(db.rows), Len(db.rows) + 1}
       /\ SubSeq(db'.rows, 1, Len(db.rows)) = db.rows]_vars

\* Two rows are stored and the consumer is about to insert a third message.
C29_Witness ==
    /\ consumerPc = "insert"
    /\ Len(db.rows) = 2
    /\ db.rows[1].src # db.rows[2].src
    /\ current.v.src \notin RowSrcs

----------------------------------------------------------------------------
(* C30 *)

\* The consumer holds the guard of the storage handle.
ConsumerHoldsLock == "consumer" \in lockHolders

\* C30: the consumer does not hold the lock while it waits on the channel (or
\* before it is spawned, or after it has ended); it takes the lock only with
\* a record that to_message returned for the envelope it received last; and
\* the step that receives an envelope for which to_message returns no record
\* leaves the lock alone and does not go on to take it.
C30_LockOnlyForARecord ==
    /\ [](consumerPc \notin {"lock", "insert"} => ~ConsumerHoldsLock)
    /\ [][(ConsumerHoldsLock' /\ ~ConsumerHoldsLock)
          => /\ consumerPc = "lock"
             /\ current.some
             /\ current.v.src = consumed[Len(consumed)]
             /\ current' = current]_vars
    /\ [][(ConsumerTakes /\ canonicalize(build, Head(channel)).kind # "Some")
          => /\ lockHolders' = lockHolders
             /\ consumerPc' \notin {"lock", "insert"}
             /\ current' = current]_vars
    /\ [][(ConsumerTakes /\ canonicalize(build, Head(channel)).kind = "Some")
          => /\ consumerPc' = "lock"
             /\ current' = Some([src |-> Head(channel).uid,
                                 rec |-> canonicalize(build, Head(channel)).rec])]_vars

\* The consumer has processed an envelope without a record and stored one
\* with a record, and waits on the empty channel without the lock.
C30_Witness ==
    /\ Drained
    /\ logs["unsupported_warn"] = 1
    /\ Len(db.rows) = 1
    /\ Len(consumed) = 2
    /\ lockHolders = {}

----------------------------------------------------------------------------
(* C31 *)

\* The envelopes that exist: held by a listener, or queued.
EnvelopesAlive ==
    {pending[p].v : p \in {q \in Protocols : pending[q].some}} \cup Range(channel)

\* C31: with the FoundMessage pipeline, every envelope carries the protocol
\* of the listener that received its datagram, whatever variant the datagram
\* decoded to; the listener sends it whatever the variant is; and the
\* message_type of a row is the name of the protocol of the listener that
\* received its datagram.
C31_TagIsListenerProtocol ==
    /\ [](build = "FoundMessage" =>
            /\ \A e \in EnvelopesAlive :
                /\ e.protocol = Datagram(e.uid).port
                /\ e.message.variant = Datagram(e.uid).kind
            /\ \A i \in 1..Len(db.rows) :
                db.rows[i].rec.message_type = Protocols_fmt(Datagram(db.rows[i].src).port))
    /\ [][\A p \in Protocols :
            (build = "FoundMessage" /\ receiverOpen /\ listenerPc[p] = "send"
                /\ listenerPc'[p] # "send")
            => channel' = Append(channel, pending[p].v)]_vars

\* A datagram that decodes as an HFDL message arrived on the ACARS port and
\* is stored as an ACARS message.
C31_Witness ==
    /\ build = "FoundMessage"
    /\ Len(db.rows) = 1
    /\ Datagram(db.rows[1].src).kind = "HfdlMessage"
    /\ Datagram(db.rows[1].src).port = "Acars"
    /\ db.rows[1].rec.message_type = "ACARS"

----------------------------------------------------------------------------
(* C32 *)

\* The consumer's receiver existed and has been dropped.
ReceiverGone == consumerPc # "unspawned" /\ ~receiverOpen

\* C32: a listener whose send finds the receiver gone logs the error once,
\* queues nothing, lets go of the message and is back at recv_from, with the
\* process and every other task where they were; and a receiver that is gone
\* stays gone, so every later send of every listener ends the same way.
C32_FailedPushKeepsListener ==
    /\ [][\A p \in Protocols :
            (ReceiverGone /\ listenerPc[p] = "send" /\ listenerPc'[p] # "send")
            => /\ logs' = Log("send_error")
               /\ channel' = channel
               /\ pushed' = pushed
               /\ pending'[p] = None
               /\ listenerPc'[p] = "recv"
               /\ mainPc' = mainPc
               /\ db' = db]_vars
    /\ [][ReceiverGone => ReceiverGone']_vars
    /\ [](ReceiverGone => channel = <<>>)

\* The receiver is gone, one listener has dropped two messages, each with its
\* log entry, and is receiving again.
C32_Witness ==
    /\ ReceiverGone
    /\ logs["send_error"] = 2
    /\ Len(delivered) = 3
    /\ \E p \in Protocols : listenerPc[p] = "recv" /\ \A i \in 1..3 : delivered[i].port = p
    /\ Running

----------------------------------------------------------------------------
(* C33 *)

\* C33: a run with no protocol enabled that has ended either could not open
\* the store, and then exited with 69 without an entry about the protocols
\* and without a consumer; or it exited with 420 after the store was
\* connected, every migration recorded and the consumer task spawned. The
\* entry about the protocols is never written before that.
C33_ProtocolCheckAfterStore ==
    /\ (NoProtocolEnabled /\ mainPc = "exited") =>
        \/ /\ exitCode = 69
           /\ logs["db_error"] = 1
           /\ logs["no_protocols"] = 0
           /\ consumerPc = "unspawned"
        \/ /\ exitCode = 420
           /\ logs["no_protocols"] = 1
           /\ databaseUrl.some
           /\ MigrationRunSucceeded
           /\ consumerPc # "unspawned"
    /\ logs["no_protocols"] > 0 =>
        (MigrationRunSucceeded /\ consumerPc # "unspawned" /\ NoProtocolEnabled)

\* No protocol is enabled: both migrations were applied to the new store and
\* the consumer was waiting when the process exited with 420.
C33_Witness ==
    /\ NoProtocolEnabled
    /\ mainPc = "exited"
    /\ exitCode = 420
    /\ schema = MIGRATIONS
    /\ logs["migration_ran"] = MaxMigrations
    /\ consumerPc = "recv"
    /\ receiverOpen

----------------------------------------------------------------------------
(* The senders of the channel and the end of the consumer loop *)

\* The states of main in which its local `sender` (main.rs line 78) is alive:
\* from unbounded_channel() until main's future is dropped.
MainHoldsSender == mainPc \in {"protocols", "run_listener", "webserver", "serving"}

\* The live UnboundedSender handles: main's, and the clone that run_listener
\* moved into each listener task, dropped when the task returns.
Senders ==
    (IF MainHoldsSender THEN {"main"} ELSE {})
        \cup {p \in Protocols : listenerPc[p] \notin {"unspawned", "done"}}

\* main, lines 95-98, when the panic of expect() unwinds: main's future is
\* dropped with its locals, `sender` among them, while the runtime's worker
\* threads still run the spawned tasks.
Main_webserver_unwind ==
    /\ mainPc = "webserver"
    /\ handleRefs' = handleRefs \ {"main"}
    /\ mainPc' = "unwinding"
    /\ UNCHANGED <<build, input, env, databaseUrl, canonIn, canonOut, schema, starts,
                   exitCode, logs>>
    /\ UNCHANGED pipelineVars

\* The runtime is dropped after main's future: every task is shut down and
\* the process ends with the status of a panic.
Main_runtime_drop ==
    /\ mainPc = "unwinding"
    /\ Exit(101)
    /\ UNCHANGED <<build, input, env, databaseUrl, canonIn, canonOut, schema, starts,
                   handleRefs, logs>>
    /\ UNCHANGED pipelineVars

\* A consumer whose loop ends as soon as no listener holds a sender.
Consumer_recv_closed_listeners_only ==
    /\ Running
    /\ consumerPc = "recv"
    /\ channel = <<>>
    /\ Senders \ {"main"} = {}
    /\ consumerPc' = "done"
    /\ receiverOpen' = FALSE
    /\ handleRefs' = handleRefs \ {"consumer"}
    /\ UNCHANGED <<channel, consumed, lockHolders, current, db, writeFailed, logs>>
    /\ UNCHANGED consumerFrame

\* A consumer whose loop ends when no sender is left, whatever is queued.
Consumer_recv_closed_drops_queue ==
    /\ Running
    /\ consumerPc = "recv"
    /\ Senders = {}
    /\ consumerPc' = "done"
    /\ receiverOpen' = FALSE
    /\ channel' = <<>>
    /\ handleRefs' = handleRefs \ {"consumer"}
    /\ UNCHANGED <<consumed, lockHolders, current, db, writeFailed, logs>>
    /\ UNCHANGED consumerFrame

\* DatabaseListener::start, line 41: receiver.recv() returns None, and the
\* `while let` ends, when the queue is empty and no sender is left; the task
\* returns and drops its receiver and its handle.
Consumer_recv_closed ==
    /\ Running
    /\ consumerPc = "recv"
    /\ channel = <<>>
    /\ Senders = {}
    /\ consumerPc' = "done"
    /\ receiverOpen' = FALSE
    /\ handleRefs' = handleRefs \ {"consumer"}
    /\ UNCHANGED <<channel, consumed, lockHolders, current, db, writeFailed, logs>>
    /\ UNCHANGED consumerFrame

\* The acarshub-database pipeline on a new store, with no protocol or with
\* ACARS and VDL-M2 enabled.
ShutdownInit ==
    /\ Init
    /\ build = "AcarsVdlm2Message"
    /\ input \in FairInputs

ShutdownNext ==
    \/ Main_database
    \/ Main_db_listener
    \/ Main_protocols
    \/ Main_run_listener
    \/ Main_webserver
    \/ Main_webserver_unwind
    \/ Main_runtime_drop
    \/ \E p \in Protocols : Listener_bind(p)
    \/ \E p \in Protocols : Listener_recv_error(p)
    \/ \E p \in Protocols : Listener_decode_error(p)
    \/ \E p \in Protocols, v \in Variants : Listener_message(p, v)
    \/ \E p \in Protocols : Listener_send(p)
    \/ Consumer_recv_some
    \/ Consumer_recv_none
    \/ Consumer_recv_closed
    \/ Consumer_lock
    \/ Consumer_insert

ShutdownSpec == ShutdownInit /\ [][ShutdownNext]_vars

----------------------------------------------------------------------------
(* C34 *)

\* C34: the consumer loop has ended only in states where no sender of the
\* channel is left and the channel is empty; it ends only from such a state,
\* with every pushed envelope consumed; and as long as main holds its
\* sender, which it does from the creation of the channel for as long as
\* main runs, the consumer has not ended, whether or not a listener is
\* still alive.
C34_ConsumerEndsOnlyWithoutSenders ==
    /\ [](consumerPc = "done" =>
            /\ Senders = {}
            /\ channel = <<>>
            /\ pushed = Range(consumed)
            /\ current = None)
    /\ []("main" \in Senders => consumerPc \in {"recv", "lock", "insert"})
    /\ []((consumerPc # "unspawned" /\ mainPc \notin {"unwinding", "exited"})
            => "main" \in Senders)
    /\ [][consumerPc' # consumerPc /\ consumerPc' = "done"
            => /\ consumerPc = "recv"
               /\ Senders = {}
               /\ channel = <<>>
               /\ pushed = Range(consumed)]_vars
    /\ [][consumerPc = "done" => consumerPc' = "done"]_vars

\* Both listeners have returned after one of them pushed an envelope; the
\* envelope was consumed and stored, and the consumer waits on the channel
\* of which main, serving, holds the last sender.
C34_Witness ==
    /\ mainPc = "serving"
    /\ Senders = {"main"}
    /\ \A p \in {"Acars", "Vdlm"} : listenerPc[p] = "done"
    /\ consumerPc = "recv"
    /\ receiverOpen
    /\ channel = <<>>
    /\ Len(consumed) = 1
    /\ pushed = Range(consumed)

----------------------------------------------------------------------------
(* C35 *)

\* The timestamp of a VDL-M2 or HFDL message.
TimeOf(message) ==
    IF message.variant = "Vdlm2Message" THEN message.vdl2.t ELSE message.hfdl.t

\* The message with the sub-second part of its timestamp set to zero.
WithoutUsec(message) ==
    IF message.variant = "Vdlm2Message"
    THEN [message EXCEPT !.vdl2.t = Some([sec |-> message.vdl2.t.v.sec, usec |-> 0])]
    ELSE [message EXCEPT !.hfdl.t = Some([sec |-> message.hfdl.t.v.sec, usec |-> 0])]

\* The seconds lie in the i32 range.
SecInI32Range(sec) == sec.hi <= I32_MAX \div Limb

\* C35: canonicalizing a VDL-M2 or HFDL message of the FoundMessage pipeline
\* always gives a record (the cast does not fail); its msg_time lies in the
\* i32 range; it is 0 when the timestamp is absent; otherwise it is the
\* seconds read as i32, equal to them when they are in the i32 range and
\* congruent to them modulo 2^32 when they are not (no value is answered
\* with 0 for being out of range); and it is the msg_time of the same
\* message with the sub-second part set to zero.
C35_TimeIsSecondsCastToI32 ==
    (/\ build = "FoundMessage"
     /\ canonIn.some
     /\ canonIn.v.message.variant \in {"Vdlm2Message", "HfdlMessage"}
     /\ canonOut.some)
    => LET message == canonIn.v.message
           t == TimeOf(message)
       IN  /\ canonOut.v.kind = "Some"
           /\ LET msg_time == canonOut.v.rec.msg_time
              IN  /\ msg_time \in I32_MIN..I32_MAX
                  /\ ~t.some => msg_time = 0
                  /\ t.some =>
                      /\ msg_time % Limb = t.v.sec.lo
                      /\ (msg_time \div Limb) % Limb = t.v.sec.hi % Limb
                      /\ SecInI32Range(t.v.sec)
                            => msg_time = (t.v.sec.hi * Limb) + t.v.sec.lo
                      /\ (~SecInI32Range(t.v.sec) /\ t.v.sec.hi % Limb # 0)
                            => msg_time # 0
                      /\ msg_time =
                            canonicalize(build,
                                [canonIn.v EXCEPT !.message = WithoutUsec(message)]
                            ).rec.msg_time

\* An HFDL message stamped 2^31 seconds and 999999 microseconds was given
\* msg_time i32::MIN.
C35_Witness ==
    /\ build = "FoundMessage"
    /\ canonIn.some
    /\ canonIn.v.message.variant = "HfdlMessage"
    /\ canonIn.v.message.hfdl.t = Some([sec |-> SecOf(Limb \div 2, 0), usec |-> 999999])
    /\ canonOut.some
    /\ canonOut.v.kind = "Some"
    /\ canonOut.v.rec.msg_time = I32_MIN

====
